---- MODULE Spec2Model ----
(***************************************************************************)
(* A model of tcia_downloader: the manifest-driven pipeline that fetches   *)
(* series archives in a bounded worker pool, extracts each into a staging  *)
(* directory and classifies (moves) its files into a metadata-derived tree, *)
(* together with the safe placement primitive mv the classification uses.  *)
(*                                                                         *)
(* Several specifications share the variables:                             *)
(*   Spec      the pipeline drivers (tcia_downloader/main.py __main__ and  *)
(*             src/tcia.py download())                                     *)
(*   SpecPlace one mv call at a time on a small directory tree             *)
(*   SpecRace  two mv calls interleaved at their system calls              *)
(*   SpecFetch one fetch call (download.py tcia_downloader, tcia.py        *)
(*             tcia_dl) against any response of the endpoint               *)
(*   SpecUnzip concurrent unzip_file calls on the temporary directory      *)
(*   SpecFn    the pure functions, applied to inputs drawn at Init         *)
(*   SpecGen   threaded_gen over a pool whose calls end in any order       *)
(*   SpecCoro  a pipeline of coroutines run over a list of items           *)
(*   SpecDl    the worker processes of download() writing their files      *)
(***************************************************************************)
EXTENDS Integers, Sequences, FiniteSets, TLC

VARIABLES
    driver,      \* which entry point runs: "main" (main.py) or "download" (tcia.py)
    rootKind,    \* the requested destination root: "noparent", "absent", "empty", "nonempty"
    manifestOk,  \* the manifest path exists and is a file
    nids,        \* number of series identifiers the manifest lists
    pc,          \* position of the driver
    err,         \* the exception that ended the driver, "none" otherwise
    nsub,        \* number of tasks submitted to the pool so far
    cur,         \* the task whose result the driver is handling (0: none)
    st,          \* per task: state of its future and of its processing
    stage,       \* per task: the files in its staging directory
    tmp,         \* per task: state of its staging directory
    placed,      \* the dcm tree under the root: destination path -> file
    nii,         \* the volume artifacts written under the root
    report,      \* the files named by a raised FileExistsError
    dl,          \* download(): the destination files written under the root
    fs,          \* SpecPlace, SpecRace: the directory tree, path -> entry
    mpc,         \* SpecRace: position of each mv call
    margs,       \* SpecRace: the arguments of each mv call, and where its ensure stands
    platform,    \* SpecRace: what os.rename does to an existing target
    last,        \* SpecPlace: the last mv call, its arguments and outcome
    fetcher,     \* SpecFetch: which fetcher runs: "download.py" or "tcia.py"
    resp,        \* SpecFetch: the response the endpoint gives
    fpc,         \* SpecFetch: position of the fetch call
    ferr,        \* SpecFetch: the exception that ended the call, and its arguments
    blob,        \* SpecFetch: the file the call writes: its NamedTemporaryFile or dest_file
    sink,        \* SpecFetch: the bytes written to the blob or destination file
    upc,         \* SpecUnzip: position of each unzip_file call
    uarch,       \* SpecUnzip: the archive each call is given
    udir,        \* SpecUnzip: the directory each call created
    uleft,       \* SpecUnzip: the entries each call has still to extract
    ublob,       \* SpecUnzip: the temporary file each call is given
    tmpfs,       \* SpecUnzip: the temporary directory of the system, name -> content
    arg,         \* SpecFn: the function called and its argument
    res,         \* SpecFn: what the call returned or raised
    tgen,        \* SpecGen: the threaded_gen generator and the futures of its pool
    coro,        \* SpecCoro: the coroutines of a pipeline and its driver
    dlst         \* SpecDl: the manifest of download() and the calls of tcia_dl

pipeVars == <<driver, rootKind, manifestOk, nids, pc, err, nsub, cur, st,
              stage, tmp, placed, nii, report, dl>>
mvVars == <<fs, mpc, margs, platform, last>>
fetchVars == <<fetcher, resp, fpc, ferr, blob, sink>>
unzipVars == <<upc, uarch, udir, uleft, ublob, tmpfs>>
fnVars == <<arg, res>>
\* the variables neither the pipeline nor mv touches
restVars == <<fetchVars, unzipVars, fnVars, tgen, coro, dlst>>
vars == <<pipeVars, mvVars, restVars>>

\* no fetch call is modelled
IdleFetch ==
    /\ fetcher = "download.py"
    /\ resp = <<>>
    /\ fpc = "idle"
    /\ ferr = <<>>
    /\ blob = "none"
    /\ sink = <<>>

\* no unzip_file call is modelled
IdleUnzip ==
    /\ upc = <<>>
    /\ uarch = <<>>
    /\ udir = <<>>
    /\ uleft = <<>>
    /\ ublob = <<>>
    /\ tmpfs = <<>>

\* no function call is modelled
IdleFn ==
    /\ arg = <<>>
    /\ res = <<>>

IdleRest ==
    IdleFetch /\ IdleUnzip /\ IdleFn /\ tgen = <<>> /\ coro = <<>> /\ dlst = <<>>

----------------------------------------------------------------------------
(* Bounds and program constants *)

\* max_workers of the executor (ThreadPoolExecutor(3), ProcessPoolExecutor(max_workers=3))
PoolSize == 3

\* the manifest lists at most PoolSize + ExtraSeries identifiers
ExtraSeries == 1

\* an archive holds at most MaxFiles files
MaxFiles == 2

Tasks == 1..(PoolSize + ExtraSeries)

----------------------------------------------------------------------------
(* Strings are sequences of one-character strings, so that sanitisation is *)
(* computed and not assumed.                                               *)

WordChars == {"a", "b", "c", "1", "2", "_", "U", "n", "k", "o", "w"}

RECURSIVE Replace(_, _, _)
\* str.replace(old, new) for single characters
Replace(s, old, new) ==
    IF s = <<>> THEN <<>>
    ELSE <<IF Head(s) = old THEN new ELSE Head(s)>> \o Replace(Tail(s), old, new)

RECURSIVE LStrip(_)
LStrip(s) == IF s # <<>> /\ Head(s) = " " THEN LStrip(Tail(s)) ELSE s

RECURSIVE RStrip(_)
RStrip(s) ==
    IF s # <<>> /\ s[Len(s)] = " " THEN RStrip(SubSeq(s, 1, Len(s) - 1)) ELSE s

\* str.strip()
Strip(s) == RStrip(LStrip(s))

\* a substitution that removes nothing
KeepAll(s) == s

\* re.sub(r"(?u)[^-\w.]", "", s): keep word characters, hyphen and dot
KeepSafe(s) == SelectSeq(s, LAMBDA ch : ch \in WordChars \cup {"-", "."})

\* get_valid_filepath
get_valid_filepath(s) == KeepSafe(Replace(Replace(Strip(s), " ", "_"), ".", "_"))

----------------------------------------------------------------------------
(* Metadata of an extracted file: the header fields the pipeline reads.    *)

\* every file of a series carries the description of its series
Metas ==
    {m \in [uid : {"u1", "u2"}, desc : {<<"a", " ", "b">>, <<"a", ".", "b">>},
            inst : {"1", "2"}] :
        m.desc = IF m.uid = "u1" THEN <<"a", " ", "b">> ELSE <<"a", ".", "b">>}

\* metadata_to_dcm_filepath: patient/study/series/<instance>.dcm; with the
\* patient, study and modality fields equal on all files the path is decided
\* by the sanitised series description and instance number (the series UID,
\* pieces[7], is read but is not part of the path).
metadata_to_dcm_filepath(m) ==
    <<get_valid_filepath(m.desc), get_valid_filepath(<<m.inst>>)>>

\* metadata_to_nii_filepath: the series directory plus ".nii.gz"
metadata_to_nii_filepath(m) == metadata_to_dcm_filepath(m)[1]

DestPaths == {metadata_to_dcm_filepath(m) : m \in Metas}

RECURSIVE SeqsUpTo(_, _)
SeqsUpTo(S, n) ==
    IF n = 0 THEN {<<>>}
    ELSE LET shorter == SeqsUpTo(S, n - 1)
         IN  shorter \cup {Append(q, x) : q \in {r \in shorter : Len(r) = n - 1}, x \in S}

NoFile == <<0, 0>>

----------------------------------------------------------------------------
(* The worker pool *)

Running == {t \in Tasks : st[t] = "running"}
Pending == {t \in Tasks : st[t] = "pending"}

\* a pool that starts a call whenever one is queued, whatever is running
SlotAlwaysFree == TRUE

\* a worker of the pool is idle: the executor runs at most max_workers calls
SlotFree == Cardinality(Running) < PoolSize

\* a driver that takes the future of a call that is still running
CompletedOrRunning(t) == st[t] \in {"ok", "error", "running"}

\* as_completed yields a future once it is finished (returned or raised)
Completed(t) == st[t] \in {"ok", "error"}

\* the tasks whose result the driver has taken
Consumed == {t \in Tasks : st[t] \in {"extracting", "staged", "done", "failed"}}

----------------------------------------------------------------------------
(* Directory safety *)

\* mkdir(exist_ok=True) without the emptiness check
mkdir_exist_ok(kind) ==
    CASE kind = "noparent" -> [raises |-> "FileNotFoundError", kind |-> kind]
      [] kind = "absent"   -> [raises |-> "none", kind |-> "empty"]
      [] kind = "empty"    -> [raises |-> "none", kind |-> "empty"]
      [] kind = "nonempty" -> [raises |-> "none", kind |-> kind]
      [] kind = "file"     -> [raises |-> "FileExistsError", kind |-> kind]

\* mkdir_safe(s): the exception it raises ("none" when it returns path) and
\* what is at s afterwards.  kind is what is at s before: "noparent" (the
\* parent of s is missing), "absent", "empty", "nonempty" (directories) or
\* "file".
mkdir_safe(kind) ==
    LET \* path.mkdir()
        mkdir == CASE kind = "noparent" -> "FileNotFoundError"
                   [] kind = "absent"   -> "none"
                   [] OTHER             -> "FileExistsError"
        \* is_empty(path): not any(directory.iterdir())
        is_empty == CASE kind = "empty"    -> [raises |-> "none", value |-> TRUE]
                      [] kind = "nonempty" -> [raises |-> "none", value |-> FALSE]
                      [] OTHER -> [raises |-> "NotADirectoryError", value |-> FALSE]
    IN  IF mkdir = "none" THEN [raises |-> "none", kind |-> "empty"]
        ELSE IF mkdir # "FileExistsError" THEN [raises |-> mkdir, kind |-> kind]
        ELSE IF is_empty.raises # "none" THEN [raises |-> is_empty.raises, kind |-> kind]
        ELSE IF is_empty.value
        \* path.mkdir(exist_ok=True) on a directory does nothing
        THEN [raises |-> "none", kind |-> kind]
        ELSE [raises |-> "DirectoryNotEmptyError", kind |-> kind]

----------------------------------------------------------------------------
(* Classification of one staging directory *)

RECURSIVE MoveAll(_, _, _, _)
\* the loop "for m_data in metadatas: mv_dcm(m_data, dcm_folder)" from file k
\* on: the tree afterwards and the index of the file whose move raised
\* FileExistsError (0: none)
MoveAll(pl, files, t, k) ==
    IF k > Len(files) THEN [placed |-> pl, failedAt |-> 0]
    ELSE LET d == metadata_to_dcm_filepath(files[k])
         IN  IF pl[d] # NoFile  \* mv_dcm refuses an existing destination
             THEN [placed |-> pl, failedAt |-> k]
             ELSE MoveAll([pl EXCEPT ![d] = <<t, k>>], files, t, k + 1)

\* a cleanup call placed at the end of the block: skipped by an exception
cleanup_at_end(raised) == IF raised THEN "present" ELSE "removed"

\* TemporaryDirectory.__exit__: the directory is removed however the with
\* block is left
TemporaryDirectory_exit(raised) == "removed"

\* GetGDCMSeriesIDs: the series found in a directory
SeriesIn(files) == {files[k].uid : k \in 1..Len(files)}

----------------------------------------------------------------------------
(* The pipeline drivers *)

InitPipe ==
    /\ driver \in {"main", "download"}
    /\ rootKind \in {"noparent", "absent", "empty", "nonempty"}
    /\ manifestOk \in BOOLEAN
    /\ nids \in 0..(PoolSize + ExtraSeries)
    /\ pc = "start"
    /\ err = "none"
    /\ nsub = 0
    /\ cur = 0
    /\ st = [t \in Tasks |-> "unsubmitted"]
    /\ stage = [t \in Tasks |-> <<>>]
    /\ tmp = [t \in Tasks |-> "none"]
    /\ placed = [d \in DestPaths |-> NoFile]
    /\ nii = {}
    /\ report = {}
    /\ dl = {}

IdleMv ==
    /\ fs = <<>>
    /\ mpc = <<>>
    /\ margs = <<>>
    /\ platform = "posix"
    /\ last = <<>>

Init == InitPipe /\ IdleMv /\ IdleRest

\* the driver ends with exception e
Raise(e) == pc' = "raised" /\ err' = e

\* setup: mkdir_safe(dest), then the manifest check
Start ==
    /\ pc = "start"
    /\ LET r == mkdir_safe(rootKind)
       IN  /\ rootKind' = r.kind
           /\ IF r.raises # "none" THEN Raise(r.raises)
              ELSE IF ~manifestOk THEN Raise("ValueError")
              ELSE pc' = "submit" /\ err' = err
    /\ UNCHANGED <<driver, manifestOk, nids, nsub, cur, st, stage, tmp, placed,
                   nii, report, dl, mvVars, restVars>>

\* pool.submit(func, i) for the next identifier of the manifest
Submit ==
    /\ pc = "submit"
    /\ nsub < nids
    /\ nsub' = nsub + 1
    /\ st' = [st EXCEPT ![nsub + 1] = "pending"]
    /\ UNCHANGED <<driver, rootKind, manifestOk, nids, pc, err, cur, stage, tmp,
                   placed, nii, report, dl, mvVars, restVars>>

\* every identifier is submitted: the driver starts to wait on as_completed
SubmitDone ==
    /\ pc = "submit"
    /\ nsub = nids
    /\ pc' = "consume"
    /\ UNCHANGED <<driver, rootKind, manifestOk, nids, err, nsub, cur, st, stage,
                   tmp, placed, nii, report, dl, mvVars, restVars>>

\* an idle worker takes the oldest queued call: the executor's work queue
\* is first in, first out
StartFetch ==
    /\ Pending # {}
    /\ SlotFree
    /\ LET oldest == CHOOSE t \in Pending : \A u \in Pending : t <= u
       IN  st' = [st EXCEPT ![oldest] = "running"]
    /\ UNCHANGED <<driver, rootKind, manifestOk, nids, pc, err, nsub, cur, stage,
                   tmp, placed, nii, report, dl, mvVars, restVars>>

\* the fetch of task t returns (tcia_dl has then written dest/<serie_id>)
FetchReturns(t) ==
    /\ st[t] = "running"
    /\ st' = [st EXCEPT ![t] = "ok"]
    /\ dl' = IF driver = "download" THEN dl \cup {t} ELSE dl
    /\ UNCHANGED <<driver, rootKind, manifestOk, nids, pc, err, nsub, cur, stage,
                   tmp, placed, nii, report, mvVars, restVars>>

\* the fetch of task t raises (raise_for_status, or the type check)
FetchRaises(t) ==
    /\ st[t] = "running"
    /\ st' = [st EXCEPT ![t] = "error"]
    /\ UNCHANGED <<driver, rootKind, manifestOk, nids, pc, err, nsub, cur, stage,
                   tmp, placed, nii, report, dl, mvVars, restVars>>

\* as_completed yields the future of t and the driver calls result() on it
TakeResult(t) ==
    /\ pc = "consume"
    /\ Completed(t)
    /\ IF st[t] = "error"
       THEN /\ st' = [st EXCEPT ![t] = "failed"]
            /\ Raise("FetchError")
            /\ cur' = cur
       ELSE IF driver = "main"
       THEN /\ st' = [st EXCEPT ![t] = "extracting"]
            /\ pc' = "extract"
            /\ cur' = t
            /\ err' = err
       ELSE /\ st' = [st EXCEPT ![t] = "done"]
            /\ UNCHANGED <<pc, cur, err>>
    /\ UNCHANGED <<driver, rootKind, manifestOk, nids, nsub, stage, tmp, placed,
                   nii, report, dl, mvVars, restVars>>

\* as_completed is exhausted: the driver returns
Finish ==
    /\ pc = "consume"
    /\ \A t \in 1..nids : t \in Consumed
    /\ pc' = "returned"
    /\ UNCHANGED <<driver, rootKind, manifestOk, nids, err, nsub, cur, st, stage,
                   tmp, placed, nii, report, dl, mvVars, restVars>>

\* unzip_file(zip_): a new temporary directory, then the archive is read;
\* a file that is no zip archive raises BadZipFile
Unzip ==
    /\ pc = "extract"
    /\ \/ /\ \E a \in (SeqsUpTo(Metas, MaxFiles)) : stage' = [stage EXCEPT ![cur] = a]
          /\ tmp' = [tmp EXCEPT ![cur] = "present"]
          /\ st' = [st EXCEPT ![cur] = "staged"]
          /\ pc' = "classify"
          /\ err' = err
       \/ /\ tmp' = [tmp EXCEPT ![cur] = "present"]
          /\ st' = [st EXCEPT ![cur] = "failed"]
          /\ Raise("BadZipFile")
          /\ stage' = stage
    /\ UNCHANGED <<driver, rootKind, manifestOk, nids, nsub, cur, placed, nii,
                   report, dl, mvVars, restVars>>

\* the body of "with dcm_dir as dir_" in classify_and_convert_dcm: read the
\* metadata, write the volume, move every file; the directory is removed when
\* the block is left, by return or by exception
ClassifyDir ==
    /\ pc = "classify"
    /\ LET files == stage[cur]
           moved == MoveAll(placed, files, cur, 1)
       IN  /\ IF files = <<>>
              THEN \* metadatas[0]
                   /\ Raise("IndexError")
                   /\ st' = [st EXCEPT ![cur] = "failed"]
                   /\ UNCHANGED <<placed, nii, report>>
              ELSE IF Cardinality(SeriesIn(files)) # 1
              THEN \* dcm_to_nii
                   /\ Raise("NotImplementedError")
                   /\ st' = [st EXCEPT ![cur] = "failed"]
                   /\ UNCHANGED <<placed, nii, report>>
              ELSE /\ nii' = nii \cup {metadata_to_nii_filepath(files[1])}
                   /\ placed' = moved.placed
                   /\ IF moved.failedAt # 0
                      THEN /\ Raise("FileExistsError")
                           /\ st' = [st EXCEPT ![cur] = "failed"]
                           /\ report' = report \cup {<<cur, moved.failedAt>>}
                      ELSE /\ st' = [st EXCEPT ![cur] = "done"]
                           /\ pc' = "consume"
                           /\ UNCHANGED <<err, report>>
    /\ tmp' = [tmp EXCEPT ![cur] = TemporaryDirectory_exit(pc' = "raised")]
    /\ stage' = [stage EXCEPT ![cur] = <<>>]
    /\ UNCHANGED <<driver, rootKind, manifestOk, nids, nsub, cur, dl, mvVars, restVars>>

Next ==
    \/ Start
    \/ Submit
    \/ SubmitDone
    \/ StartFetch
    \/ \E t \in Tasks : FetchReturns(t)
    \/ \E t \in Tasks : FetchRaises(t)
    \/ \E t \in Tasks : TakeResult(t)
    \/ Finish
    \/ Unzip
    \/ ClassifyDir

Spec == Init /\ [][Next]_vars

----------------------------------------------------------------------------
(* The state machine of an identifier, read off the state of its task *)

\* download() has nothing to do after a fetch: tcia_dl wrote the file itself
Phase(t) ==
    CASE st[t] \in {"unsubmitted", "pending"} -> "Queued"
      [] st[t] = "running"                    -> "Fetching"
      [] st[t] = "ok"                         -> IF driver = "main" THEN "Fetching" ELSE "Done"
      [] st[t] = "extracting"                 -> "Extracting"
      [] st[t] = "staged"                     -> "Classifying"
      [] st[t] = "done"                       -> "Done"
      [] st[t] \in {"error", "failed"}        -> "Failed"

\* the driver has returned or raised and no worker has anything left to do
RunOver == pc \in {"returned", "raised"} /\ Running = {} /\ Pending = {}

\* the directory tree holds nothing the run wrote
C10_NothingWritten ==
    /\ \A d \in DestPaths : placed[d] = NoFile
    /\ nii = {}
    /\ dl = {}

\* where file f of a staging directory is in the tree pl
C2_PlacesOf(pl, f) == {d \in DestPaths : pl[d] = f}

\* the run summary
Attempted == nsub

----------------------------------------------------------------------------
(* Claims about the pipeline *)

\* C2: when the classification of a staging directory ends, by return or by
\* a refused placement, every file that was in the directory is at exactly
\* one destination of the tree or is in the collision report.
C2_EveryFilePlacedOrReported ==
    [][(pc = "classify" /\ pc' # "classify" /\ Cardinality(SeriesIn(stage[cur])) = 1) =>
          \A k \in 1..Len(stage[cur]) :
              \/ Cardinality(C2_PlacesOf(placed', <<cur, k>>)) = 1
              \/ <<cur, k>> \in report']_vars

\* C3: a refused placement does not end the run: once the run is over, one
\* collision is recorded per refused placement and no fetched archive is
\* left unclassified.
C3_CollisionIsNotFatal ==
    (RunOver /\ report # {}) =>
        /\ Cardinality(report) = 1
        /\ err # "FileExistsError"
        /\ \A t \in 1..nids : ~Completed(t)

\* C5: when the run is over and the fetch, extraction or classification of a
\* series failed, the driver has taken the result of every other series and
\* brought it to Done or Failed.
C5_FailureIsolation ==
    (/\ RunOver
     /\ err \in {"FetchError", "BadZipFile", "IndexError", "NotImplementedError",
                 "FileExistsError"}) =>
        \A t \in 1..nids : t \in Consumed /\ st[t] \in {"done", "failed"}

\* what one step may do to the phase of an identifier
PhaseStep(p, q) ==
    \/ p = q
    \/ p = "Queued" /\ q = "Fetching"
    \/ p = "Fetching" /\ q = "Extracting"
    \/ p = "Extracting" /\ q = "Classifying"
    \/ p = "Classifying" /\ q = "Done"
    \/ p \notin {"Done", "Failed"} /\ q = "Failed"

\* C6: in the pipeline of main.py every identifier moves only along
\* Queued -> Fetching -> Extracting -> Classifying -> Done, or to Failed from
\* a state that is not terminal; its extraction starts only from a fetch that
\* returned, its classification only from its extraction.
C6_StageOrder ==
    [][driver = "main" =>
          \A t \in Tasks :
              /\ PhaseStep(Phase(t), Phase(t)')
              /\ (st'[t] = "extracting" /\ st[t] # "extracting") => st[t] = "ok"
              /\ (st'[t] = "staged" /\ st[t] # "staged") => st[t] = "extracting"]_vars

C6_Witness == driver = "main" /\ \E t \in Tasks : st[t] = "done"

\* C7: at most PoolSize fetches execute at the same time.
C7_PoolBound == Cardinality(Running) <= PoolSize

C7_Witness == Cardinality(Running) = PoolSize /\ Pending # {}

\* C8: the run ends in a final state where every identifier of the manifest
\* is Done or Failed and attempted = succeeded + failed = number of identifiers.
C8_FinalSummary ==
    (RunOver /\ manifestOk /\ rootKind = "empty") =>
        /\ \A t \in 1..nids : Phase(t) \in {"Done", "Failed"}
        /\ Attempted = nids
        /\ Attempted = Cardinality({t \in Tasks : Phase(t) = "Done"})
                       + Cardinality({t \in Tasks : Phase(t) = "Failed"})

\* C9: download() ends in error when the manifest is missing or is no file,
\* and ends successfully otherwise (the destination root being usable).
C9_RunOutcome ==
    (driver = "download" /\ rootKind = "empty" /\ pc \in {"returned", "raised"}) =>
        (pc = "raised" <=> ~manifestOk)

\* C17: a staging directory handed to classification is off the disk when
\* its classification ends, by return or by exception, and stays off.
C17_StagingDestroyed ==
    [][\A t \in Tasks :
          /\ (st[t] = "staged" /\ st'[t] # "staged") => tmp'[t] = "removed"
          /\ tmp[t] = "removed" => tmp'[t] = "removed"]_vars

C17_Witness ==
    /\ pc = "raised"
    /\ err = "FileExistsError"
    /\ tmp[cur] = "removed"
    /\ \E t \in Tasks : st[t] = "done" /\ tmp[t] = "removed"

\* C10: with a destination root that exists and is not empty the run ends
\* with DirectoryNotEmptyError, no task is ever submitted to the pool and
\* nothing is written under the root.
C10_NonEmptyRootIsFatal ==
    rootKind = "nonempty" =>
        /\ pc \in {"start", "raised"}
        /\ pc = "raised" => err = "DirectoryNotEmptyError"
        /\ nsub = 0
        /\ \A t \in Tasks : st[t] = "unsubmitted"
        /\ C10_NothingWritten

C10_Witness == rootKind = "nonempty" /\ pc = "raised" /\ nids > 0 /\ manifestOk

----------------------------------------------------------------------------
(* Safe placement: mv on a directory tree.  A path is the sequence of its  *)
(* components below a common root.  As in the tree the pipeline builds,    *)
(* files sit at one depth and directories above it.                        *)

\* destination files sit MvDepth directories below the root
MvDepth == 2

\* SpecPlace makes at most MaxCalls calls of mv
MaxCalls == 2

Comps == {"p", "q"}
Sources == {"f1", "f2"}

RECURSIVE SeqsOfLen(_, _)
SeqsOfLen(S, n) ==
    IF n = 0 THEN {<<>>} ELSE {Append(q, x) : q \in SeqsOfLen(S, n - 1), x \in S}

SourcePath(f) == <<"tmp", f>>

DestFilePaths == SeqsOfLen(Comps, MvDepth + 1)
FilePaths == DestFilePaths \cup {SourcePath(f) : f \in Sources}
\* the directories (the staging directory among them) and the files
AllPaths ==
    UNION {SeqsOfLen(Comps, n) : n \in 1..MvDepth} \cup {<<"tmp">>} \cup FilePaths

\* path.parents
Ancestors(p) == {SubSeq(p, 1, k) : k \in 1..(Len(p) - 1)}

\* Path.exists()
exists(tree, p) == tree[p] # "none"

\* ensure: path.parent.mkdir(parents=True, exist_ok=True)
ensure(tree, p) == [q \in AllPaths |-> IF q \in Ancestors(p) THEN "dir" ELSE tree[q]]

\* Path.rename: POSIX rename replaces an existing target file silently,
\* Windows refuses it
rename(os, tree, old, new) ==
    IF ~exists(tree, old)
    THEN [tree |-> tree, raises |-> "FileNotFoundError"]
    ELSE IF os = "nt" /\ exists(tree, new)
    THEN [tree |-> tree, raises |-> "FileExistsError"]
    ELSE [tree |-> [tree EXCEPT ![new] = tree[old], ![old] = "none"], raises |-> "none"]

\* a move without the existence check: what a bare rename does
mv_overwrite(os, tree, old, new) == rename(os, ensure(tree, new), old, new)

\* mv, run without interruption
mv(os, tree, old, new) ==
    IF exists(tree, new)
    THEN [tree |-> tree, raises |-> "FileExistsError"]
    ELSE rename(os, ensure(tree, new), old, new)

\* the staging directory with the source files in it, nothing else
FreshTree ==
    [q \in AllPaths |->
        IF q = <<"tmp">> THEN "dir"
        ELSE IF \E f \in Sources : q = SourcePath(f)
             THEN CHOOSE f \in Sources : q = SourcePath(f)
             ELSE "none"]

IdlePipe ==
    /\ driver = "main"
    /\ rootKind = "empty"
    /\ manifestOk = TRUE
    /\ nids = 0
    /\ pc = "returned"
    /\ err = "none"
    /\ nsub = 0
    /\ cur = 0
    /\ st = [t \in Tasks |-> "unsubmitted"]
    /\ stage = [t \in Tasks |-> <<>>]
    /\ tmp = [t \in Tasks |-> "none"]
    /\ placed = [d \in DestPaths |-> NoFile]
    /\ nii = {}
    /\ report = {}
    /\ dl = {}

----------------------------------------------------------------------------
(* SpecPlace: one mv call after the other *)

InitPlace ==
    /\ IdlePipe
    /\ IdleRest
    /\ fs = FreshTree
    /\ platform \in {"posix", "nt"}
    /\ mpc = <<>>
    /\ margs = <<>>
    /\ last = <<>>

\* calls made so far
Calls == IF last = <<>> THEN 0 ELSE last.n

\* mv(old_path, new_path) on an existing file and any file path
MvCall(old, new) ==
    /\ Calls < MaxCalls
    /\ exists(fs, old)
    /\ LET r == mv(platform, fs, old, new)
       IN  /\ fs' = r.tree
           /\ last' = [old |-> old, new |-> new, before |-> fs,
                       raises |-> r.raises, n |-> Calls + 1]
    /\ UNCHANGED <<pipeVars, restVars, mpc, margs, platform>>

NextPlace == \E old \in FilePaths, new \in FilePaths : MvCall(old, new)

SpecPlace == InitPlace /\ [][NextPlace]_vars

----------------------------------------------------------------------------
(* SpecRace: two mv calls, interleaved at their system calls *)

Movers == {1, 2}

InitRace ==
    /\ IdlePipe
    /\ IdleRest
    /\ fs = FreshTree
    /\ platform \in {"posix", "nt"}
    /\ mpc = [m \in Movers |-> "call"]
    \* at and up are where Path.mkdir stands inside ensure: the ancestor of
    \* new_path, by its length, that os.mkdir is tried on next, and whether
    \* this is the second try, made once the parent is there
    /\ margs \in {a \in [Movers -> [old : FilePaths, new : DestFilePaths,
                                     at : {MvDepth}, up : {FALSE}]] :
                    \A m \in Movers : a[m].old = SourcePath(IF m = 1 THEN "f1" ELSE "f2")}
    /\ last = <<>>

\* if new_path.exists(): raise FileExistsError
MvCheck(m) ==
    /\ mpc[m] = "call"
    /\ mpc' = [mpc EXCEPT ![m] =
                 IF exists(fs, margs[m].new) THEN "FileExistsError" ELSE "checked"]
    /\ UNCHANGED <<pipeVars, restVars, fs, margs, platform, last>>

\* ensure(new_path) with mkdir(parents=True) and no exist_ok: an existing
\* directory raises FileExistsError
MvEnsure_no_exist_ok(m) ==
    /\ mpc[m] = "checked"
    /\ LET k == margs[m].at
           d == SubSeq(margs[m].new, 1, k)
           found == k = 1 \/ fs[SubSeq(margs[m].new, 1, k - 1)] = "dir"
       IN  IF ~found
           THEN /\ mpc' = IF margs[m].up THEN [mpc EXCEPT ![m] = "FileNotFoundError"] ELSE mpc
                /\ margs' = IF margs[m].up THEN margs ELSE [margs EXCEPT ![m].at = k - 1]
                /\ fs' = fs
           ELSE IF fs[d] = "dir"
           THEN /\ mpc' = [mpc EXCEPT ![m] = "FileExistsError"]
                /\ UNCHANGED <<margs, fs>>
           ELSE /\ fs' = [fs EXCEPT ![d] = "dir"]
                /\ mpc' = IF k = MvDepth THEN [mpc EXCEPT ![m] = "ensured"] ELSE mpc
                /\ margs' = IF k = MvDepth THEN margs
                            ELSE [margs EXCEPT ![m].at = k + 1, ![m].up = TRUE]
    /\ UNCHANGED <<pipeVars, restVars, platform, last>>

\* ensure(new_path): one os.mkdir of path.parent.mkdir(parents=True,
\* exist_ok=True).  Path.mkdir tries os.mkdir on the directory; on
\* FileNotFoundError it makes the parent the same way and tries once more,
\* then without parents; a FileExistsError is passed over when the path is
\* a directory.
MvEnsure(m) ==
    /\ mpc[m] = "checked"
    /\ LET k == margs[m].at
           d == SubSeq(margs[m].new, 1, k)
           found == k = 1 \/ fs[SubSeq(margs[m].new, 1, k - 1)] = "dir"
       IN  IF ~found
           THEN /\ mpc' = IF margs[m].up THEN [mpc EXCEPT ![m] = "FileNotFoundError"] ELSE mpc
                /\ margs' = IF margs[m].up THEN margs ELSE [margs EXCEPT ![m].at = k - 1]
                /\ fs' = fs
           ELSE /\ fs' = [fs EXCEPT ![d] = "dir"]
                /\ mpc' = IF k = MvDepth THEN [mpc EXCEPT ![m] = "ensured"] ELSE mpc
                /\ margs' = IF k = MvDepth THEN margs
                            ELSE [margs EXCEPT ![m].at = k + 1, ![m].up = TRUE]
    /\ UNCHANGED <<pipeVars, restVars, platform, last>>

\* old_path.rename(new_path)
MvRename(m) ==
    /\ mpc[m] = "ensured"
    /\ LET r == rename(platform, fs, margs[m].old, margs[m].new)
       IN  /\ fs' = r.tree
           /\ mpc' = [mpc EXCEPT ![m] = IF r.raises = "none" THEN "returned" ELSE r.raises]
    /\ UNCHANGED <<pipeVars, restVars, margs, platform, last>>

NextRace ==
    \/ \E m \in Movers : MvCheck(m)
    \/ \E m \in Movers : MvEnsure(m)
    \/ \E m \in Movers : MvRename(m)

SpecRace == InitRace /\ [][NextRace]_vars

\* C4: of two concurrent mv calls with the same destination and different
\* sources exactly one returns and the other fails with FileExistsError.
C4_OneWriterWins ==
    (/\ margs[1].new = margs[2].new
     /\ \A m \in Movers : mpc[m] \in {"returned", "FileExistsError", "FileNotFoundError"}) =>
        \E m \in Movers :
            /\ mpc[m] = "returned"
            /\ mpc[3 - m] = "FileExistsError"
            /\ FreshTree[margs[m].old] = fs[margs[m].new]

----------------------------------------------------------------------------
(* SpecFetch: one fetch call, tcia_downloader of download.py or tcia_dl of *)
(* tcia.py, against any final response of the endpoint.                    *)

\* a response body has at most MaxChunks chunks
MaxChunks == 2

\* r.raise_for_status(): HTTPError for a 4xx or 5xx status
raise_for_status(status) ==
    IF 400 <= status /\ status < 600 THEN "HTTPError" ELSE "none"

\* json.loads(r.headers.get("metadata")), then .get("Result").get("Type")[0]
filetype(header) ==
    CASE header = "absent"    -> [raises |-> "TypeError", type |-> "none"]
      [] header = "malformed" -> [raises |-> "JSONDecodeError", type |-> "none"]
      [] OTHER                -> [raises |-> "none", type |-> header]

\* a type check that lets every payload through
AnyType(type) == TRUE

\* the negation of: if filetype != "ZIP"
IsZip(type) == type = "ZIP"

InitFetch ==
    /\ IdlePipe
    /\ IdleMv
    /\ IdleUnzip
    /\ IdleFn
    /\ tgen = <<>>
    /\ coro = <<>>
    /\ dlst = <<>>
    /\ fetcher \in {"download.py", "tcia.py"}
    \* a final response: its status code, its "metadata" header (missing,
    \* not JSON, or declaring a type) and the chunks given by iter_content,
    \* "" being a keep-alive chunk
    /\ resp \in [status : {200, 204, 304, 404, 503},
                 header : {"absent", "malformed", "ZIP", "OTHER"},
                 body : SeqsUpTo({"", "x", "y"}, MaxChunks)]
    /\ fpc = "call"
    /\ ferr = [type |-> "none", args |-> <<>>]
    /\ blob = "none"
    /\ sink = <<>>

notFetch == <<pipeVars, mvVars, unzipVars, fnVars, tgen, coro, dlst>>

FetchFails(type, args) == fpc' = "raised" /\ ferr' = [type |-> type, args |-> args]

\* download.py: tmp_file = tempfile.NamedTemporaryFile()
Allocate ==
    /\ fpc = "call"
    /\ fetcher = "download.py"
    /\ blob' = "open"
    /\ fpc' = "get"
    /\ UNCHANGED <<fetcher, resp, ferr, sink, notFetch>>

\* requests.get(..., stream=True): the response arrives, or the connection fails
Get ==
    /\ \/ fpc = "get"
       \/ fpc = "call" /\ fetcher = "tcia.py"
    /\ \/ fpc' = "status" /\ ferr' = ferr
       \/ FetchFails("ConnectionError", <<>>)
    /\ UNCHANGED <<fetcher, resp, blob, sink, notFetch>>

\* r.raise_for_status()
CheckStatus ==
    /\ fpc = "status"
    /\ IF raise_for_status(resp.status) # "none"
       THEN FetchFails(raise_for_status(resp.status), <<resp.status>>)
       ELSE fpc' = "header" /\ ferr' = ferr
    /\ UNCHANGED <<fetcher, resp, blob, sink, notFetch>>

\* the metadata header is parsed and the declared type checked; tcia.py
\* opens dest_file for writing once the check has passed
CheckType ==
    /\ fpc = "header"
    /\ LET ft == filetype(resp.header)
       IN  IF ft.raises # "none"
           THEN FetchFails(ft.raises, <<>>) /\ blob' = blob
           ELSE IF ~IsZip(ft.type)
           THEN /\ FetchFails("ValueError",
                              <<"Supplied seriesID is not valid. No .zip file here", "s1">>)
                /\ blob' = blob
           ELSE /\ fpc' = "body"
                /\ ferr' = ferr
                /\ blob' = IF fetcher = "tcia.py" THEN "open" ELSE blob
    /\ UNCHANGED <<fetcher, resp, sink, notFetch>>

\* one round of: for chunk in r.iter_content(): if chunk: file.write(chunk)
WriteChunk ==
    /\ fpc = "body"
    /\ resp.body # <<>>
    /\ sink' = IF Head(resp.body) # "" THEN Append(sink, Head(resp.body)) ELSE sink
    /\ resp' = [resp EXCEPT !.body = Tail(@)]
    /\ UNCHANGED <<fetcher, fpc, ferr, blob, notFetch>>

\* the stream breaks before the body is complete; tcia.py leaves its with
\* block, which closes dest_file
StreamBreaks ==
    /\ fpc = "body"
    /\ resp.body # <<>>
    /\ FetchFails("ChunkedEncodingError", <<>>)
    /\ blob' = IF fetcher = "tcia.py" THEN "closed" ELSE blob
    /\ UNCHANGED <<fetcher, resp, sink, notFetch>>

\* the body is exhausted: return the open temporary file (download.py) or
\* the path of the closed destination file (tcia.py)
FetchReturn ==
    /\ fpc = "body"
    /\ resp.body = <<>>
    /\ fpc' = "returned"
    /\ blob' = IF fetcher = "tcia.py" THEN "closed" ELSE blob
    /\ UNCHANGED <<fetcher, resp, ferr, sink, notFetch>>

\* after a failed call nothing closes the NamedTemporaryFile; it is closed,
\* and so erased, when the garbage collector reaches it, which is any time
\* after the exception and its traceback are dropped, or never
Collect ==
    /\ fpc = "raised"
    /\ fetcher = "download.py"
    /\ blob = "open"
    /\ blob' = "released"
    /\ sink' = <<>>
    /\ UNCHANGED <<fetcher, resp, fpc, ferr, notFetch>>

NextFetch ==
    \/ Allocate
    \/ Get
    \/ CheckStatus
    \/ CheckType
    \/ WriteChunk
    \/ StreamBreaks
    \/ FetchReturn
    \/ Collect

SpecFetch == InitFetch /\ [][NextFetch]_vars

\* C11: a response that declares a type other than "ZIP" never gets its
\* body read: the call fails, with a ValueError that carries the series
\* identifier once status and header were read, and no byte of the body is
\* written to the temporary file or to the destination file, which tcia.py
\* does not even create.
C11_TypeCheck ==
    resp.header = "OTHER" =>
        /\ fpc \notin {"body", "returned"}
        /\ sink = <<>>
        /\ fetcher = "tcia.py" => blob = "none"
        /\ (fpc = "raised" /\ ferr.type \notin {"ConnectionError", "HTTPError"}) =>
               /\ ferr.type = "ValueError"
               /\ \E i \in 1..Len(ferr.args) : ferr.args[i] = "s1"

C11_Witness ==
    /\ resp.header = "OTHER"
    /\ fpc = "raised"
    /\ ferr.type = "ValueError"
    /\ \E i \in 1..Len(resp.body) : resp.body[i] # ""

\* C12: after a fetch has failed on the declared payload type, the temporary
\* file the call allocated is no longer allocated.
C12_NoBlobLeftAllocated ==
    (fpc = "raised" /\ ferr.type = "ValueError") => blob # "open"

\* C13: a response whose status is not 2xx makes the fetch fail with a
\* transport error before the metadata header is parsed and before a byte of
\* the body is written; the call returns only for a 2xx response that
\* declares the type "ZIP".
C13_StatusCheck ==
    /\ (resp.status \notin 200..299 /\ fpc \notin {"call", "get", "status"}) =>
           /\ fpc = "raised"
           /\ ferr.type \in {"HTTPError", "ConnectionError"}
           /\ sink = <<>>
    /\ fpc = "returned" => (resp.status \in 200..299 /\ resp.header = "ZIP")

----------------------------------------------------------------------------
(* SpecUnzip: unzip_file calls, interleaved at their system calls, on the  *)
(* temporary directory of the system.                                      *)

\* number of unzip_file calls
MaxUnzippers == 2

Unzippers == 1..MaxUnzippers

\* the names mkdtemp draws from
TmpNames == {"d1", "d2", "d3"}

\* a name of the temporary directory that no directory has
Absent == [exists |-> FALSE, files |-> {}]

\* os.mkdir(name, exist_ok=True): an existing directory is taken as it is
os_mkdir_shared(tree, n) ==
    [raises |-> "none",
     tree |-> IF tree[n].exists THEN tree
              ELSE [tree EXCEPT ![n] = [exists |-> TRUE, files |-> {}]]]

\* os.mkdir(name) as mkdtemp calls it: FileExistsError for an existing name
os_mkdir(tree, n) ==
    IF tree[n].exists
    THEN [raises |-> "FileExistsError", tree |-> tree]
    ELSE [raises |-> "none", tree |-> [tree EXCEPT ![n] = [exists |-> TRUE, files |-> {}]]]

\* where the path p, taken relative to directory n, leads
Resolve(n, p) ==
    IF Len(p) >= 3 /\ p[1] = ".."
    THEN [dir |-> p[2], path |-> SubSeq(p, 3, Len(p))]
    ELSE [dir |-> n, path |-> p]

InitUnzip ==
    /\ IdlePipe
    /\ IdleMv
    /\ IdleFetch
    /\ IdleFn
    /\ tgen = <<>>
    /\ coro = <<>>
    /\ dlst = <<>>
    /\ upc = [c \in Unzippers |-> "call"]
    \* a file that is no zip container, or an archive whose member names are
    \* sequences of path components
    /\ uarch \in [Unzippers ->
                    {[zip |-> FALSE, members |-> <<>>]} \cup
                    {[zip |-> TRUE, members |-> ms] :
                        ms \in {<<>>, <<<<"a">>>>, <<<<"a">>, <<"..", "d1", "a">>>>}}]
    /\ udir = [c \in Unzippers |-> "none"]
    /\ uleft = [c \in Unzippers |-> <<>>]
    /\ ublob = [c \in Unzippers |-> "open"]
    /\ tmpfs = [n \in TmpNames |-> Absent]

notUnzip == <<pipeVars, mvVars, fetchVars, fnVars, tgen, coro, dlst>>

\* tmp_dir = tempfile.TemporaryDirectory(): mkdtemp tries names until
\* os.mkdir succeeds
Mkdtemp(c) ==
    /\ upc[c] = "call"
    /\ \E n \in TmpNames :
           LET r == os_mkdir(tmpfs, n)
           IN  /\ r.raises = "none"
               /\ tmpfs' = r.tree
               /\ udir' = [udir EXCEPT ![c] = n]
    /\ upc' = [upc EXCEPT ![c] = "made"]
    /\ UNCHANGED <<uarch, uleft, ublob, notUnzip>>

\* zipfile.ZipFile(file, "r"): BadZipFile when the file is no zip container
OpenZip(c) ==
    /\ upc[c] = "made"
    /\ IF ~uarch[c].zip
       THEN upc' = [upc EXCEPT ![c] = "raised"] /\ uleft' = uleft
       ELSE /\ upc' = [upc EXCEPT ![c] = "opened"]
            /\ uleft' = [uleft EXCEPT ![c] = uarch[c].members]
    /\ UNCHANGED <<uarch, udir, ublob, tmpfs, notUnzip>>

\* archive.extractall(tmp_dir.name), one member at a time
ExtractMember(c) ==
    /\ upc[c] = "opened"
    /\ uleft[c] # <<>>
    \* ZipFile._extract_member: empty, "." and ".." components are dropped
    \* from the member name
    /\ LET member_path == SelectSeq(Head(uleft[c]), LAMBDA x : x \notin {"", ".", ".."})
           to == Resolve(udir[c], member_path)
       IN  tmpfs' = [tmpfs EXCEPT ![to.dir] =
                         [exists |-> TRUE,
                          files |-> @.files \cup {[from |-> c, path |-> to.path]}]]
    /\ uleft' = [uleft EXCEPT ![c] = Tail(@)]
    /\ UNCHANGED <<upc, uarch, udir, ublob, notUnzip>>

\* the with block closes the ZipFile, which leaves a file object it was
\* given open; return tmp_dir
UnzipReturn(c) ==
    /\ upc[c] = "opened"
    /\ uleft[c] = <<>>
    /\ upc' = [upc EXCEPT ![c] = "returned"]
    /\ UNCHANGED <<uarch, udir, uleft, ublob, tmpfs, notUnzip>>

\* the caller leaves its with block on the returned TemporaryDirectory
Cleanup(c) ==
    /\ upc[c] = "returned"
    /\ tmpfs' = [tmpfs EXCEPT ![udir[c]] = Absent]
    /\ udir' = [udir EXCEPT ![c] = "none"]
    /\ upc' = [upc EXCEPT ![c] = "cleaned"]
    /\ UNCHANGED <<uarch, uleft, ublob, notUnzip>>

\* after BadZipFile nothing removes the directory; the finalizer of the
\* TemporaryDirectory removes it when the object is collected
CollectDir(c) ==
    /\ upc[c] = "raised"
    /\ udir[c] # "none"
    /\ tmpfs' = [tmpfs EXCEPT ![udir[c]] = Absent]
    /\ udir' = [udir EXCEPT ![c] = "none"]
    /\ UNCHANGED <<upc, uarch, uleft, ublob, notUnzip>>

\* the temporary file is closed, and so erased, when the file object is
\* collected
CollectBlob(c) ==
    /\ upc[c] \in {"returned", "cleaned", "raised"}
    /\ ublob[c] = "open"
    /\ ublob' = [ublob EXCEPT ![c] = "released"]
    /\ UNCHANGED <<upc, uarch, udir, uleft, tmpfs, notUnzip>>

NextUnzip ==
    \/ \E c \in Unzippers : Mkdtemp(c)
    \/ \E c \in Unzippers : OpenZip(c)
    \/ \E c \in Unzippers : ExtractMember(c)
    \/ \E c \in Unzippers : UnzipReturn(c)
    \/ \E c \in Unzippers : Cleanup(c)
    \/ \E c \in Unzippers : CollectDir(c)
    \/ \E c \in Unzippers : CollectBlob(c)

SpecUnzip == InitUnzip /\ [][NextUnzip]_vars

\* C14: the calls that hold a staging directory hold different directories,
\* and a directory holds only members of the archive given to the call that
\* created it.
C14_ExtractorIsolation ==
    /\ \A c1, c2 \in Unzippers :
           (c1 # c2 /\ udir[c1] # "none" /\ udir[c2] # "none") => udir[c1] # udir[c2]
    /\ \A c \in Unzippers :
           udir[c] # "none" =>
               /\ tmpfs[udir[c]].exists
               /\ \A f \in tmpfs[udir[c]].files : f.from = c
    /\ \A n \in TmpNames :
           tmpfs[n].exists => \E c \in Unzippers : udir[c] = n

C14_Witness ==
    \E c1, c2 \in Unzippers :
        /\ c1 # c2
        /\ udir[c1] # "none" /\ udir[c2] # "none"
        /\ Cardinality(tmpfs[udir[c1]].files) = 2
        /\ tmpfs[udir[c2]].files # {}

\* C15: when an unzip_file call returns, the temporary file it was given has
\* been released.
C15_BlobReleasedOnReturn ==
    \A c \in Unzippers : upc[c] = "returned" => ublob[c] = "released"

\* C16: when unzip_file fails on a file that is no zip container, the
\* directory the call created is not on disk.
C16_NoDirectoryAfterBadZip ==
    \A c \in Unzippers : upc[c] = "raised" => udir[c] = "none"

----------------------------------------------------------------------------
(* SpecGen: threaded_gen(pool, func, ite).  The pool runs the submitted    *)
(* calls and ends them in any order; a call returns or raises.             *)

\* ite has at most MaxItems items
MaxItems == 3

InitGen ==
    /\ IdlePipe /\ IdleMv /\ IdleFetch /\ IdleUnzip /\ IdleFn
    /\ coro = <<>>
    /\ dlst = <<>>
    /\ tgen \in [n : 0..MaxItems, pc : {"submit"},
                st : {[t \in 1..MaxItems |-> "unsubmitted"]},
                done : {<<>>}, snap : {{}}, out : {<<>>}]

\* results.append(pool.submit(func, i, ...)) for the next item
GenSubmit ==
    /\ tgen.pc = "submit"
    /\ \E t \in 1..tgen.n :
          /\ tgen.st[t] = "unsubmitted"
          /\ \A u \in 1..(t - 1) : tgen.st[u] # "unsubmitted"
          /\ tgen' = [tgen EXCEPT !.st[t] = "pending"]
    /\ UNCHANGED <<pipeVars, mvVars, fetchVars, unzipVars, fnVars, coro, dlst>>

\* the pool ends the call of item t: func returned (ok) or raised;
\* done keeps the order in which the futures finished
GenComplete(t, ok) ==
    /\ tgen.st[t] = "pending"
    /\ tgen' = [tgen EXCEPT !.st[t] = IF ok THEN "ok" ELSE "error",
                          !.done = Append(@, t)]
    /\ UNCHANGED <<pipeVars, mvVars, fetchVars, unzipVars, fnVars, coro, dlst>>

\* as_completed entered while items are still to be submitted
GenAsCompleted_early ==
    /\ tgen.pc = "submit"
    /\ tgen' = [tgen EXCEPT !.pc = "yield",
                          !.snap = {t \in 1..MaxItems : tgen.st[t] \in {"ok", "error"}}]
    /\ UNCHANGED <<pipeVars, mvVars, fetchVars, unzipVars, fnVars, coro, dlst>>

\* the first loop is over; as_completed(results) takes the set of the
\* futures that are finished already
GenAsCompleted ==
    /\ tgen.pc = "submit"
    /\ \A t \in 1..tgen.n : tgen.st[t] # "unsubmitted"
    /\ tgen' = [tgen EXCEPT !.pc = "yield",
                          !.snap = {t \in 1..MaxItems : tgen.st[t] \in {"ok", "error"}}]
    /\ UNCHANGED <<pipeVars, mvVars, fetchVars, unzipVars, fnVars, coro, dlst>>

\* as_completed gives the next future: first those of its set, in the order
\* the set iterates, then the others in the order they finish;
\* result.result() raises what the call raised, else the result is yielded
GenYield(t) ==
    /\ tgen.pc = "yield"
    /\ tgen.st[t] \in {"ok", "error"}
    /\ \A k \in 1..Len(tgen.out) : tgen.out[k] # t
    /\ LET yielded == {tgen.out[k] : k \in 1..Len(tgen.out)}
           later == SelectSeq(tgen.done, LAMBDA u : u \notin tgen.snap \cup yielded)
       IN  \/ t \in tgen.snap
           \/ tgen.snap \subseteq yielded /\ later # <<>> /\ t = Head(later)
    /\ tgen' = IF tgen.st[t] = "error" THEN [tgen EXCEPT !.pc = "raised"]
              ELSE [tgen EXCEPT !.out = Append(@, t)]
    /\ UNCHANGED <<pipeVars, mvVars, fetchVars, unzipVars, fnVars, coro, dlst>>

\* as_completed is exhausted: the generator ends
GenReturn ==
    /\ tgen.pc = "yield"
    /\ Len(tgen.out) = tgen.n
    /\ tgen' = [tgen EXCEPT !.pc = "done"]
    /\ UNCHANGED <<pipeVars, mvVars, fetchVars, unzipVars, fnVars, coro, dlst>>

NextGen ==
    \/ GenSubmit
    \/ \E t \in 1..MaxItems, ok \in BOOLEAN : GenComplete(t, ok)
    \/ GenAsCompleted
    \/ \E t \in 1..MaxItems : GenYield(t)
    \/ GenReturn

SpecGen == InitGen /\ [][NextGen]_vars

\* no result is yielded before every item is submitted, none is yielded
\* twice, and a generator that ends with no call failed has yielded as
\* many results as there are items
C35_AllOnce ==
    /\ tgen.out # <<>> => \A t \in 1..tgen.n : tgen.st[t] # "unsubmitted"
    /\ \A j, k \in 1..Len(tgen.out) : tgen.out[j] = tgen.out[k] => j = k
    /\ \A k \in 1..Len(tgen.out) : tgen.st[tgen.out[k]] = "ok"
    /\ (tgen.pc = "done" /\ \A t \in 1..tgen.n : tgen.st[t] # "error") =>
           Len(tgen.out) = tgen.n

----------------------------------------------------------------------------
(* SpecCoro: run_pipeline(iterable_, ops, autoclose) over the coroutines   *)
(* that chain builds from ops.  Stage i < n is the coroutine of ops[i],    *)
(* stage n the sink of the last function.  A value is an item, by its      *)
(* place in the iterable, with the functions it went through.              *)

\* ops has at most MaxStages functions
MaxStages == 3

\* at is the stage that runs (0: the driver), val the value it was sent,
\* open the generators that are not finished, exits the stages in the order
\* GeneratorExit was raised in them while run_pipeline ran, calls the
\* arguments the last function was called with
InitCoro ==
    /\ IdlePipe /\ IdleMv /\ IdleFetch /\ IdleUnzip /\ IdleFn
    /\ tgen = <<>>
    /\ dlst = <<>>
    /\ coro \in [n : 1..MaxStages, items : 0..MaxItems, autoclose : BOOLEAN,
                 pc : {"loop"}, k : {0}, at : {0}, val : {[item |-> 0, via |-> <<>>]},
                 open : {[i \in 1..MaxStages |-> TRUE]}, exits : {<<>>}, calls : {<<>>}]

\* for item in iterable_: first_target.send(item)
CoroSend ==
    /\ coro.pc = "loop"
    /\ coro.at = 0
    /\ coro.k < coro.items
    /\ coro' = [coro EXCEPT !.k = @ + 1, !.at = 1,
                            !.val = [item |-> coro.k + 1, via |-> <<>>]]
    /\ UNCHANGED <<pipeVars, mvVars, fetchVars, unzipVars, fnVars, tgen, dlst>>

\* a coroutine that hands on what it was sent, func left out
CoroStep_no_func ==
    /\ coro.pc = "loop"
    /\ coro.at >= 1
    /\ coro' = IF coro.at < coro.n
               THEN [coro EXCEPT !.at = @ + 1]
               ELSE [coro EXCEPT !.calls = Append(@, coro.val), !.at = 0]
    /\ UNCHANGED <<pipeVars, mvVars, fetchVars, unzipVars, fnVars, tgen, dlst>>

\* the stage that was sent a value runs to its next yield: a coroutine
\* sends func(arg) to its target; the sink calls func(arg) and yields, and
\* so does every coroutine above it, back to the driver
CoroStep ==
    /\ coro.pc = "loop"
    /\ coro.at >= 1
    /\ coro' = IF coro.at < coro.n
               THEN [coro EXCEPT !.at = @ + 1, !.val.via = Append(@, coro.at)]
               ELSE [coro EXCEPT !.calls = Append(@, coro.val), !.at = 0]
    /\ UNCHANGED <<pipeVars, mvVars, fetchVars, unzipVars, fnVars, tgen, dlst>>

\* the loop is over: first_target.close() if autoclose, then the return
CoroReturn ==
    /\ coro.pc = "loop"
    /\ coro.at = 0
    /\ coro.k = coro.items
    /\ coro' = IF coro.autoclose
               THEN [coro EXCEPT !.pc = "close", !.at = 1]
               ELSE [coro EXCEPT !.pc = "returned"]
    /\ UNCHANGED <<pipeVars, mvVars, fetchVars, unzipVars, fnVars, tgen, dlst>>

\* a coroutine that breaks on GeneratorExit and leaves its target alone
CoroGeneratorExit_no_cascade ==
    /\ coro.pc = "close"
    /\ coro' = [coro EXCEPT !.exits = Append(@, coro.at), !.at = 0,
                            !.open[coro.at] = FALSE, !.pc = "returned"]
    /\ UNCHANGED <<pipeVars, mvVars, fetchVars, unzipVars, fnVars, tgen, dlst>>

\* close() raises GeneratorExit at the yield of the stage: a coroutine
\* closes its target and breaks, the sink breaks; the generators finish
\* from the sink upwards and close() returns to the driver
CoroGeneratorExit ==
    /\ coro.pc = "close"
    /\ coro' = IF coro.at < coro.n
               THEN [coro EXCEPT !.exits = Append(@, coro.at), !.at = @ + 1]
               ELSE [coro EXCEPT !.exits = Append(@, coro.at), !.at = 0,
                                 !.open = [i \in 1..MaxStages |-> FALSE],
                                 !.pc = "returned"]
    /\ UNCHANGED <<pipeVars, mvVars, fetchVars, unzipVars, fnVars, tgen, dlst>>

\* after the return nothing refers to the generators: they are finalized,
\* which closes those that are not finished, when the interpreter collects
\* them
CoroCollect ==
    /\ coro.pc = "returned"
    /\ coro' = [coro EXCEPT !.pc = "collected",
                            !.open = [i \in 1..MaxStages |-> FALSE]]
    /\ UNCHANGED <<pipeVars, mvVars, fetchVars, unzipVars, fnVars, tgen, dlst>>

NextCoro ==
    \/ CoroSend
    \/ CoroStep
    \/ CoroReturn
    \/ CoroGeneratorExit
    \/ CoroCollect

SpecCoro == InitCoro /\ [][NextCoro]_vars

\* C36: the last function is called once for every item sent, in item
\* order, with the item passed through the functions before it in their
\* order; an item is sent only when the one before it has been consumed.
C36_PipelineOrder ==
    /\ Len(coro.calls) = IF coro.at = 0 \/ coro.pc # "loop" THEN coro.k ELSE coro.k - 1
    /\ \A j \in 1..Len(coro.calls) :
          coro.calls[j] = [item |-> j, via |-> [i \in 1..(coro.n - 1) |-> i]]
    /\ coro.pc # "loop" => Len(coro.calls) = coro.items

C36_Witness ==
    /\ coro.pc = "returned"
    /\ coro.n = 3
    /\ coro.items = 3
    /\ Len(coro.calls) = 3

\* the stages of the pipeline that are open
C37_Open == {i \in 1..coro.n : coro.open[i]}

\* with autoclose, once run_pipeline has returned, GeneratorExit was raised
\* in every stage, in pipeline order, and no stage is open
C37_AutoClose ==
    (coro.autoclose /\ coro.pc \in {"returned", "collected"}) =>
        /\ coro.exits = [i \in 1..coro.n |-> i]
        /\ C37_Open = {}

\* C37: with autoclose every stage is closed, in pipeline order, down to
\* the sink; without it every stage is still open after run_pipeline has
\* returned.
C37_ClosePropagation ==
    /\ C37_AutoClose
    /\ (~coro.autoclose /\ coro.pc \in {"returned", "collected"}) =>
           C37_Open = 1..coro.n

\* C37, amended: without autoclose run_pipeline closes no stage: every
\* stage is open when it returns, and stays open until the generators are
\* collected.
C37_ClosePropagationAmended ==
    /\ C37_AutoClose
    /\ ~coro.autoclose =>
           /\ coro.exits = <<>>
           /\ coro.pc # "collected" => C37_Open = 1..coro.n

C37_Witness ==
    /\ coro.autoclose
    /\ coro.pc = "returned"
    /\ coro.n = 3
    /\ coro.items = 2
    /\ coro.exits = <<1, 2, 3>>

----------------------------------------------------------------------------
(* SpecDl: download() of src/tcia.py.  One call of tcia_dl is submitted    *)
(* for every line of the manifest after the sentinel; the processes of the *)
(* pool run the calls, each writing destination_folder/<serie_id>.         *)

\* the manifests of up to MaxItems identifiers; a call is "unsubmitted",
\* "pending", "writing" (dest_file is open for writing) or "done"
InitDl ==
    /\ IdlePipe /\ IdleMv /\ IdleFetch /\ IdleUnzip /\ IdleFn
    /\ tgen = <<>>
    /\ coro = <<>>
    /\ \E ids \in SeqsUpTo({"s1", "s2"}, MaxItems) :
          dlst = [ids |-> ids, st |-> [t \in 1..Len(ids) |-> "unsubmitted"]]

\* executor.submit(tcia_dl, serie_id, destination_folder / serie_id) for
\* the next identifier
DlSubmit ==
    /\ \E t \in 1..Len(dlst.ids) :
          /\ dlst.st[t] = "unsubmitted"
          /\ \A u \in 1..(t - 1) : dlst.st[u] # "unsubmitted"
          /\ dlst' = [dlst EXCEPT !.st[t] = "pending"]
    /\ UNCHANGED <<pipeVars, mvVars, fetchVars, unzipVars, fnVars, tgen, coro>>

\* an idle process of the pool takes the oldest queued call and runs it up
\* to dest_file.open("wb")
DlOpen ==
    /\ Cardinality({t \in 1..Len(dlst.ids) : dlst.st[t] = "writing"}) < PoolSize
    /\ \E t \in 1..Len(dlst.ids) :
          /\ dlst.st[t] = "pending"
          /\ \A u \in 1..(t - 1) : dlst.st[u] # "pending"
          /\ dlst' = [dlst EXCEPT !.st[t] = "writing"]
    /\ UNCHANGED <<pipeVars, mvVars, fetchVars, unzipVars, fnVars, tgen, coro>>

\* the chunks are written, the file is closed, the call returns
DlClose(t) ==
    /\ dlst.st[t] = "writing"
    /\ dlst' = [dlst EXCEPT !.st[t] = "done"]
    /\ UNCHANGED <<pipeVars, mvVars, fetchVars, unzipVars, fnVars, tgen, coro>>

NextDl ==
    \/ DlSubmit
    \/ DlOpen
    \/ \E t \in 1..Len(dlst.ids) : DlClose(t)

SpecDl == InitDl /\ [][NextDl]_vars

\* C38: no two calls have the same destination file open for writing at the
\* same time, whatever the manifest lists.
C38_OneWriterPerFile ==
    \A t, u \in 1..Len(dlst.ids) :
        (t # u /\ dlst.st[t] = "writing" /\ dlst.st[u] = "writing") =>
            dlst.ids[t] # dlst.ids[u]

----------------------------------------------------------------------------
(* SpecFn: the pure functions. Init draws a call, a function and its       *)
(* argument, and one action per function applies it.                       *)

\* data_elements of image_io.py: the tags of the recognized fields
data_elements ==
    <<"0008|0020", "0008|0030", "0008|1030", "0020|000d", "0008|0021",
      "0008|0031", "0008|103e", "0020|000e", "0020|0013", "0020|1041",
      "0054|0081", "0018|0010", "0010|0010", "0010|0020", "0010|0030",
      "0010|0040", "0010|1010", "0010|1020", "0010|1030", "0008|0080",
      "0008|0018", "0008|0032", "0008|0060", "0008|0008", "0008|0070",
      "0008|1090">>

\* the keys of data_elements_machine
Tags == {data_elements[i] : i \in 1..Len(data_elements)}

Unknown == <<"U", "n", "k", "n", "o", "w", "n">>

\* dict.update / {**a, **b}: the entries of b, then those of a
Merge(a, b) ==
    [k \in DOMAIN a \cup DOMAIN b |-> IF k \in DOMAIN b THEN b[k] ELSE a[k]]

\* the files extract_dcm_metadata is called on: a path with no file, a file
\* GDCM cannot read, a .dcm file with its header
DcmFiles ==
    {[path |-> "f.dcm", exists |-> FALSE, dicom |-> FALSE, header |-> <<>>],
     [path |-> "f.dcm", exists |-> TRUE, dicom |-> FALSE, header |-> <<>>]} \cup
    {[path |-> "f.dcm", exists |-> TRUE, dicom |-> TRUE, header |-> [k \in ks |-> <<"a">>]] :
        ks \in {{}, Tags, {"0028|0010"}, Tags \cup {"0028|0010"}, Tags \ {"0008|103e"},
                {"0010|0010", "0010|0020", "0020|0013"}}}

Returns(v) == [done |-> TRUE, raises |-> "none", none |-> FALSE, value |-> v]
Raises(e) == [done |-> TRUE, raises |-> e, none |-> FALSE, value |-> <<>>]
NotCalled == [done |-> FALSE, raises |-> "none", none |-> FALSE, value |-> <<>>]

\* extract_dcm_metadata(filename, reader)
extract_dcm_metadata(file) ==
    IF ~file.exists THEN Raises("FileNotFoundError")
    ELSE IF ~file.dicom
    THEN \* ReadImageInformation raises RuntimeError: log.error, return None
         [done |-> TRUE, raises |-> "none", none |-> TRUE, value |-> <<>>]
    ELSE LET metadata == [k \in Tags \cap DOMAIN file.header |-> file.header[k]]
             with_file == Merge(metadata, [k \in {"file"} |-> file.path])
             default_elements_machine == [k \in Tags |-> Unknown]
         IN  Returns(Merge(default_elements_machine, with_file))

\* the data elements of a pydicom header of the model, in tag order; values
\* are sequences of characters or, for a multi-valued element, of items
PatientID == [tag |-> "0010|0020", keyword |-> "PatientID", vr |-> "str", value |-> <<" ", "p">>]
ImagePositionPatient(z) ==
    [tag |-> "0020|0032", keyword |-> "ImagePositionPatient", vr |-> "multi",
     value |-> <<"0", "0", z>>]
PixelData == [tag |-> "7fe0|0010", keyword |-> "PixelData", vr |-> "str", value |-> <<"x">>]

\* the headers dicom_dataset_to_flat_dict is called on; none has a sequence
\* or a nested dataset
DicomHeaders ==
    {SelectSeq(<<PatientID, ImagePositionPatient(z), PixelData>>,
               LAMBDA e : e.keyword \in ks) :
        ks \in SUBSET {"PatientID", "ImagePositionPatient", "PixelData"}, z \in {"1", "2"}}

\* header.<keyword>: the value of the element with that keyword
ElementValue(header, keyword) ==
    LET i == CHOOSE j \in 1..Len(header) : header[j].keyword = keyword
    IN  header[i].value

RECURSIVE FlatLoop(_, _, _)
\* the loop of dicom_dataset_to_flat_dict from element i on, dicom_dict being d.
\* convert_value is _sanitise_unicode for the characters of the model, and
\* repr for a multi-valued element; hasattr(d, name) for a dict d looks for
\* an attribute of the object, not for a key
FlatLoop(header, i, d) ==
    IF i > Len(header) THEN d
    ELSE LET e == header[i]
             convert_value == IF e.vr = "str" THEN Strip(e.value)
                              ELSE <<"[">> \o e.value \o <<"]">>
             hasattr(name) ==
                 name \in {"clear", "copy", "fromkeys", "get", "items", "keys", "pop",
                           "popitem", "setdefault", "update", "values"}
             d1 == Merge(d, [k \in {e.keyword} |-> convert_value])
             ipp == ElementValue(header, "ImagePositionPatient")
             d2 == IF hasattr("ImagePositionPatient")
                   THEN Merge(d1, [k \in {"z_location"} |-> <<ipp[Len(ipp)]>>])
                   ELSE d1
         IN  FlatLoop(header, i + 1, IF e.tag = PixelData.tag THEN d ELSE d2)

\* flatten of a dict that holds no mapping keeps every key as it is
dicom_dataset_to_flat_dict(header) ==
    LET dicom_dict == FlatLoop(header, 1, <<>>)
    IN  Returns([k \in DOMAIN dicom_dict |-> dicom_dict[k]])

\* a tag list that names the slice by its location instead of its number
tags_by_location ==
    <<"0010|0010", "0010|0020", "0008|0020", "0008|1030", "0020|000d",
      "0008|0060", "0008|103e", "0020|000e", "0020|1041">>

\* tags of metadata_to_dcm_filepath: patient's name, patient ID, study date,
\* study description, study UID, modality, series description, series UID,
\* instance number
tags ==
    <<"0010|0010", "0010|0020", "0008|0020", "0008|1030", "0020|000d",
      "0008|0060", "0008|103e", "0020|000e", "0020|0013">>

\* "_".join of two pieces
Join(a, b) == a \o <<"_">> \o b

\* metadata_to_dcm_filepath of image_io.py on a complete mapping: the path
\* patient/study/series/<instance>.dcm as a sequence of components; the
\* Python slices pieces[:2], pieces[2:4], pieces[5:7] and pieces[8]
image_io_metadata_to_dcm_filepath(metadata) ==
    LET pieces == [i \in 1..Len(tags) |-> get_valid_filepath(metadata[tags[i]])]
    IN  <<Join(pieces[1], pieces[2]),
          Join(pieces[3], pieces[4]),
          Join(pieces[6], pieces[7]),
          pieces[9] \o <<".", "d", "c", "m">>>>

RECURSIVE PathStr(_)
\* str(path): the components joined by "/"
PathStr(p) ==
    IF p = <<>> THEN <<>>
    ELSE IF Len(p) = 1 THEN p[1]
    ELSE p[1] \o <<"/">> \o PathStr(Tail(p))

RECURSIVE PathOf(_, _)
\* pathlib.Path(s) for a relative s: split at "/", empty and "." components
\* dropped; comp is the component being read
PathOf(s, comp) ==
    LET done == IF comp \in {<<>>, <<".">>} THEN <<>> ELSE <<comp>>
    IN  IF s = <<>> THEN done
        ELSE IF Head(s) = "/" THEN done \o PathOf(Tail(s), <<>>)
        ELSE PathOf(Tail(s), Append(comp, Head(s)))

\* path.parent
PathParent(p) == IF p = <<>> THEN <<>> ELSE SubSeq(p, 1, Len(p) - 1)

\* a volume path put beside the study directory
nii_beside_study(metadata) ==
    LET path == image_io_metadata_to_dcm_filepath(metadata)
    IN  PathOf(PathStr(PathParent(PathParent(path))) \o <<".", "n", "i", "i", ".", "g", "z">>, <<>>)

\* metadata_to_nii_filepath of main.py on a complete mapping:
\* pathlib.Path(str(path.parent) + ".nii.gz")
main_metadata_to_nii_filepath(metadata) ==
    LET path == image_io_metadata_to_dcm_filepath(metadata)
    IN  PathOf(PathStr(PathParent(path)) \o <<".", "n", "i", "i", ".", "g", "z">>, <<>>)

\* the call ends with exception e (or "none"); read: the slices were read;
\* artifact: "none", "old" (what was there before) or "new"; parent: the
\* directory of dest
NiiOutcome(e, read, artifact, parent) ==
    [done |-> TRUE, raises |-> e, none |-> e = "none",
     value |-> [read |-> read, artifact |-> artifact, parent |-> parent]]

\* a dcm_to_nii that prepares the destination before it looks at the source
dcm_to_nii_ensure_first(c) ==
    LET before == IF c.dest = "exists" THEN "old" ELSE "none"
    IN  IF c.version = "image_io" /\ c.dest = "exists"
        THEN NiiOutcome("FileExistsError", FALSE, before, c.parent)
        ELSE IF c.series # 1
        THEN NiiOutcome("NotImplementedError", FALSE, before, "exists")
        ELSE NiiOutcome("none", TRUE, "new", "exists")

\* dcm_to_nii(source, dest): image_io.py refuses an existing dest first,
\* main.py does not; then the series check, the read, ensure(dest) and
\* WriteImage, which replaces an existing file
dcm_to_nii(c) ==
    LET before == IF c.dest = "exists" THEN "old" ELSE "none"
    IN  IF c.version = "image_io" /\ c.dest = "exists"
        THEN NiiOutcome("FileExistsError", FALSE, before, c.parent)
        ELSE IF c.series # 1
        THEN NiiOutcome("NotImplementedError", FALSE, before, c.parent)
        ELSE NiiOutcome("none", TRUE, "new", "exists")

\* a series has at most MaxSlices slices
MaxSlices == 3

\* the flat dicts of the slices of a group: acquisition number, instance
\* number, z location
SliceLists ==
    SeqsUpTo([AcquisitionNumber : {1, 2}, InstanceNumber : {1, 2}, z_location : {1, 2}],
             MaxSlices)

RECURSIVE KeyLess(_, _)
\* k1 < k2 for tuples, as Python compares them
KeyLess(k1, k2) ==
    IF k1 = <<>> \/ k2 = <<>> THEN k1 = <<>> /\ k2 # <<>>
    ELSE IF Head(k1) # Head(k2) THEN Head(k1) < Head(k2)
    ELSE KeyLess(Tail(k1), Tail(k2))

RECURSIVE InsertByKey(_, _)
\* the pair x = <<key, item>> put into the sorted pairs sp, behind every pair
\* whose key is not greater
InsertByKey(sp, x) ==
    IF sp = <<>> THEN <<x>>
    ELSE IF KeyLess(x[1], sp[Len(sp)][1])
    THEN Append(InsertByKey(SubSeq(sp, 1, Len(sp) - 1), x), sp[Len(sp)])
    ELSE Append(sp, x)

RECURSIVE SortPairs(_)
SortPairs(pairs) ==
    IF pairs = <<>> THEN <<>>
    ELSE InsertByKey(SortPairs(SubSeq(pairs, 1, Len(pairs) - 1)), pairs[Len(pairs)])

\* sorted(items, key=...): a stable sort; keys[i] is the key of items[i]
sorted(items, keys) ==
    LET sp == SortPairs([i \in 1..Len(items) |-> <<keys[i], items[i]>>])
    IN  [i \in 1..Len(items) |-> sp[i][2]]

\* a key that looks at the instance number alone
itemgetter_instance(m) == <<m.InstanceNumber>>

\* operator.itemgetter("AcquisitionNumber", "InstanceNumber")
itemgetter_acq_inst(m) == <<m.AcquisitionNumber, m.InstanceNumber>>

\* group_by_correct_volumes: both lists are sorted with the same key, the
\* test compares new_by_zloc with itself, and nothing is returned; order is
\* new_by_zloc, the list the message says is used, log the lines printed
group_by_correct_volumes(slices_mdatas) ==
    LET keys == [i \in 1..Len(slices_mdatas) |-> itemgetter_acq_inst(slices_mdatas[i])]
        new_by_inst_nb == sorted(slices_mdatas, keys)
        new_by_zloc == sorted(slices_mdatas, keys)
        log == IF ~(new_by_zloc = new_by_zloc)
               THEN <<"discrepancy in slice order between z position and instance number!",
                      "Using zloc to discriminate slice">>
               ELSE <<>>
    IN  [done |-> TRUE, raises |-> "none", none |-> TRUE,
         value |-> [order |-> new_by_zloc, log |-> log]]

\* a folder holds at most MaxMetas DICOM files
MaxMetas == 4

\* the flat dicts of the files of a folder, reduced to the keys that
\* grouping and filtering read
MetaLists ==
    SeqsUpTo([SeriesInstanceUID : {"u1", "u2"},
              kind : {[Modality |-> "CT", ImageType |-> "ORIGINAL"],
                      [Modality |-> "CT", ImageType |-> "DERIVED"],
                      [Modality |-> "OT", ImageType |-> "ORIGINAL"]}],
             MaxMetas)

\* a dict as the sequence of its items, in insertion order
DictKeys(d) == {d[i].key : i \in 1..Len(d)}

\* result[k] = [v]: the list of k replaced, not extended
defaultdict_replace(d, k, v) ==
    IF k \in DictKeys(d)
    THEN [i \in 1..Len(d) |-> IF d[i].key = k THEN [d[i] EXCEPT !.items = <<v>>] ELSE d[i]]
    ELSE Append(d, [key |-> k, items |-> <<v>>])

\* result[k].append(v) on a defaultdict(list): a missing key is inserted
\* with an empty list first
defaultdict_append(d, k, v) ==
    LET got == IF k \in DictKeys(d) THEN d ELSE Append(d, [key |-> k, items |-> <<>>])
    IN  [i \in 1..Len(got) |->
            IF got[i].key = k THEN [got[i] EXCEPT !.items = Append(@, v)] ELSE got[i]]

RECURSIVE merge_series(_)
\* merge_series(list_of_metas)
merge_series(list_of_metas) ==
    IF list_of_metas = <<>> THEN <<>>
    ELSE LET n == Len(list_of_metas)
             metas == list_of_metas[n]
         IN  defaultdict_append(merge_series(SubSeq(list_of_metas, 1, n - 1)),
                                metas.SeriesInstanceUID, metas)

\* a series of fewer than MinSeriesLen slices is a small series
MinSeriesLen == 3

\* keep_slice(slice_): an allowed modality and an original acquisition
keep_slice(slice_) ==
    /\ slice_.kind.Modality \in {"CT", "MR", "PT", "RTSTRUCT", "SEG"}
    /\ slice_.kind.ImageType = "ORIGINAL"

\* small_series(series_slices)
small_series(series_slices) == Len(series_slices) < MinSeriesLen

RECURSIVE final_list_of_mdatas(_, _)
\* the loop over the items of the grouped metadata
final_list_of_mdatas(groups, filter_series) ==
    IF groups = <<>> THEN <<>>
    ELSE LET n == Len(groups)
             before == final_list_of_mdatas(SubSeq(groups, 1, n - 1), filter_series)
             series_slices == groups[n].items
         IN  IF filter_series /\ small_series(series_slices)
             THEN before
             ELSE before \o series_slices

\* the small series dropped first, on the count of all the files of the
\* series, and the slices filtered afterwards
extract_series_filter_first(c) ==
    LET final == final_list_of_mdatas(merge_series(c.list), c.filter_series)
    IN  IF c.filter_slice THEN SelectSeq(final, keep_slice) ELSE final

\* the series filter left out, whatever the switch says
extract_without_series_filter(c) ==
    final_list_of_mdatas(
        merge_series(IF c.filter_slice THEN SelectSeq(c.list, keep_slice) ELSE c.list),
        FALSE)

\* extract_dcm_metadata_to_csv(folder, n_jobs, filter_slice, filter_series):
\* the records written to metadatas.csv
extract_dcm_metadata_to_csv(c) ==
    LET list_of_metadata_dict ==
            IF c.filter_slice THEN SelectSeq(c.list, keep_slice) ELSE c.list
        metadatas_group_by_series_acq_number == merge_series(list_of_metadata_dict)
    IN  final_list_of_mdatas(metadatas_group_by_series_acq_number, c.filter_series)

\* a manifest has at most MaxLines lines
MaxLines == 3

\* TAKE_AFTER = "ListOfSeriesToDownload=", shortened
TAKE_AFTER == <<"L", "=">>

\* the manifests: every line ends with a newline, the last one may not
Manifests ==
    LET texts == {TAKE_AFTER, TAKE_AFTER \o <<" ">>, <<"s", "1">>, <<"s", "2">>, <<>>}
        lines == {t \o nl : t \in texts, nl \in {<<>>, <<"\n">>}} \ {<<>>}
    IN  {f \in SeqsUpTo(lines, MaxLines) :
            \A i \in 1..(Len(f) - 1) : f[i][Len(f[i])] = "\n"}

RECURSIVE remove_trailing_n(_)
\* line.rstrip("\n")
remove_trailing_n(line) ==
    IF line # <<>> /\ line[Len(line)] = "\n"
    THEN remove_trailing_n(SubSeq(line, 1, Len(line) - 1))
    ELSE line

\* drop_until on a sequence, which the second loop reads from its start again
drop_until_restart(predicate, gen) == gen

\* drop_until(predicate, gen) on an iterator: the first loop takes items up
\* to and including the first one the predicate holds for, the second loop
\* yields what the iterator has left.  The predicate is given as the set of
\* the items it holds for.
drop_until(predicate, gen) ==
    LET hits == {i \in 1..Len(gen) : gen[i] \in predicate}
        taken == IF hits = {} THEN Len(gen)
                 ELSE CHOOSE i \in hits : \A j \in hits : i <= j
    IN  SubSeq(gen, taken + 1, Len(gen))

\* the keys of a complete mapping
Fields == Tags \cup {"file"}

BaseMetadata == [k \in Fields |-> <<"a">>]
Metadatas ==
    {BaseMetadata} \cup
    {[BaseMetadata EXCEPT ![k] = v] :
        k \in Fields,
        v \in {<<"b">>, <<"a", " ", "b">>, <<"a", ".", "b">>, Unknown,
               <<" ", "a", "/", "b", " ">>, <<"a", "-", "@", "1">>}}

MaxName == 3

\* remove_ext(filepath), on the final component of filepath (with_name
\* leaves the parent alone).  stem is the name up to its last dot, the whole
\* name when that dot is its first or its last character or when it has
\* none; with_name refuses the name "."
RECURSIVE remove_ext(_)
remove_ext(name) ==
    LET dots == {i \in 1..Len(name) : name[i] = "."}
        last_dot == IF dots = {} THEN 0 ELSE CHOOSE i \in dots : \A j \in dots : j <= i
        stem == IF 1 < last_dot /\ last_dot < Len(name)
                THEN SubSeq(name, 1, last_dot - 1)
                ELSE name
    IN  IF stem = <<".">> THEN Raises("ValueError")
        ELSE IF stem = name THEN Returns(stem)
        ELSE remove_ext(stem)

InitFn ==
    /\ IdlePipe
    /\ IdleMv
    /\ IdleFetch
    /\ IdleUnzip
    /\ tgen = <<>>
    /\ coro = <<>>
    /\ dlst = <<>>
    /\ \/ arg \in [fn : {"extract_dcm_metadata"}, x : DcmFiles]
       \/ arg \in [fn : {"dicom_dataset_to_flat_dict"}, x : DicomHeaders]
       \/ arg \in [fn : {"metadata_to_dcm_filepath"}, x : Metadatas \X Metadatas]
       \/ arg \in [fn : {"metadata_to_nii_filepath"}, x : Metadatas \X Metadatas]
       \* dcm_to_nii: which module's version, how many series GetGDCMSeriesIDs
       \* finds in source, whether dest exists, whether its parent exists
       \/ arg \in [fn : {"dcm_to_nii"},
                   x : {c \in [version : {"image_io", "main"}, series : {0, 1, 2},
                               dest : {"absent", "exists"}, parent : {"absent", "exists"}] :
                           c.dest = "exists" => c.parent = "exists"}]
       \/ arg \in [fn : {"group_by_correct_volumes"}, x : SliceLists]
       \/ arg \in [fn : {"mkdir_safe"},
                   x : {"noparent", "absent", "empty", "nonempty", "file"}]
       \/ arg \in [fn : {"drop_until"}, x : Manifests]
       \/ arg \in [fn : {"merge_series"}, x : MetaLists]
       \* remove_ext: the final component of the path, a name of letters and
       \* dots that is neither empty nor "."
       \/ arg \in [fn : {"remove_ext"},
                   x : {n \in SeqsUpTo({"a", "b", "."}, MaxName) : n # <<>> /\ n # <<".">>}]
       \* extract_dcm_metadata_to_csv: the flat dicts of the files found in
       \* the folder and the two switches
       \/ arg \in [fn : {"extract_dcm_metadata_to_csv"},
                   x : [list : MetaLists, filter_slice : BOOLEAN, filter_series : BOOLEAN]]
    /\ res = NotCalled

notFn == <<pipeVars, mvVars, fetchVars, unzipVars, tgen, coro, dlst>>

Call_extract_dcm_metadata ==
    /\ arg.fn = "extract_dcm_metadata"
    /\ ~res.done
    /\ res' = extract_dcm_metadata(arg.x)
    /\ UNCHANGED <<arg, notFn>>

Call_dicom_dataset_to_flat_dict ==
    /\ arg.fn = "dicom_dataset_to_flat_dict"
    /\ ~res.done
    /\ res' = dicom_dataset_to_flat_dict(arg.x)
    /\ UNCHANGED <<arg, notFn>>

\* two calls, one on each mapping of the pair
Call_metadata_to_dcm_filepath ==
    /\ arg.fn = "metadata_to_dcm_filepath"
    /\ ~res.done
    /\ res' = Returns(<<image_io_metadata_to_dcm_filepath(arg.x[1]),
                        image_io_metadata_to_dcm_filepath(arg.x[2])>>)
    /\ UNCHANGED <<arg, notFn>>

\* two calls, one on each mapping of the pair
Call_metadata_to_nii_filepath ==
    /\ arg.fn = "metadata_to_nii_filepath"
    /\ ~res.done
    /\ res' = Returns(<<main_metadata_to_nii_filepath(arg.x[1]),
                        main_metadata_to_nii_filepath(arg.x[2])>>)
    /\ UNCHANGED <<arg, notFn>>

Call_dcm_to_nii ==
    /\ arg.fn = "dcm_to_nii"
    /\ ~res.done
    /\ res' = dcm_to_nii(arg.x)
    /\ UNCHANGED <<arg, notFn>>

Call_group_by_correct_volumes ==
    /\ arg.fn = "group_by_correct_volumes"
    /\ ~res.done
    /\ res' = group_by_correct_volumes(arg.x)
    /\ UNCHANGED <<arg, notFn>>

Call_merge_series ==
    /\ arg.fn = "merge_series"
    /\ ~res.done
    /\ res' = Returns(merge_series(arg.x))
    /\ UNCHANGED <<arg, notFn>>

Call_extract_dcm_metadata_to_csv ==
    /\ arg.fn = "extract_dcm_metadata_to_csv"
    /\ ~res.done
    /\ res' = Returns(extract_dcm_metadata_to_csv(arg.x))
    /\ UNCHANGED <<arg, notFn>>

Call_mkdir_safe ==
    /\ arg.fn = "mkdir_safe"
    /\ ~res.done
    /\ LET r == mkdir_safe(arg.x)
       IN  res' = [done |-> TRUE, raises |-> r.raises, none |-> FALSE,
                   value |-> [kind |-> r.kind]]
    /\ UNCHANGED <<arg, notFn>>

\* download(): the lines of the manifest, remove_trailing_n on each, then
\* drop_until(lambda x: x == TAKE_AFTER, lines), read to its end
Call_drop_until ==
    /\ arg.fn = "drop_until"
    /\ ~res.done
    /\ LET lines == [i \in 1..Len(arg.x) |-> remove_trailing_n(arg.x[i])]
       IN  res' = Returns(drop_until({TAKE_AFTER}, lines))
    /\ UNCHANGED <<arg, notFn>>

Call_remove_ext ==
    /\ arg.fn = "remove_ext"
    /\ ~res.done
    /\ res' = remove_ext(arg.x)
    /\ UNCHANGED <<arg, notFn>>

NextFn ==
    \/ Call_extract_dcm_metadata
    \/ Call_dicom_dataset_to_flat_dict
    \/ Call_metadata_to_dcm_filepath
    \/ Call_metadata_to_nii_filepath
    \/ Call_dcm_to_nii
    \/ Call_group_by_correct_volumes
    \/ Call_merge_series
    \/ Call_drop_until
    \/ Call_mkdir_safe
    \/ Call_remove_ext
    \/ Call_extract_dcm_metadata_to_csv

SpecFn == InitFn /\ [][NextFn]_vars

\* C18: for a path that exists extract_dcm_metadata returns a mapping with
\* the 26 recognized fields, each with the value of the header or "Unknown"
\* when the header lacks it, and the file entry; never no mapping.
C18_CompleteMapping ==
    (arg.fn = "extract_dcm_metadata" /\ res.done /\ arg.x.exists) =>
        /\ res.raises = "none"
        /\ ~res.none
        /\ DOMAIN res.value = Tags \cup {"file"}
        /\ Cardinality(Tags) = 26
        /\ res.value["file"] = arg.x.path
        /\ \A k \in Tags :
               res.value[k] = IF k \in DOMAIN arg.x.header THEN arg.x.header[k] ELSE Unknown

\* C19: the flat dict of a header with ImagePositionPatient has a z_location
\* entry equal to the last coordinate of that field; the flat dict of a
\* header without the field has no z_location entry.
C19_ZLocation ==
    (arg.fn = "dicom_dataset_to_flat_dict" /\ res.done) =>
        IF \E i \in 1..Len(arg.x) : arg.x[i].keyword = "ImagePositionPatient"
        THEN /\ "z_location" \in DOMAIN res.value
             /\ LET ipp == ElementValue(arg.x, "ImagePositionPatient")
                IN  res.value["z_location"] = <<ipp[3]>>
        ELSE "z_location" \notin DOMAIN res.value

\* the nine fields the path is built from
C20_Selected ==
    {"0010|0010", "0010|0020", "0008|0020", "0008|1030", "0020|000d",
     "0008|0060", "0008|103e", "0020|000e", "0020|0013"}

\* C20: two calls of metadata_to_dcm_filepath on mappings that agree on the
\* nine selected fields return the same path.
C20_PathDeterminism ==
    (/\ arg.fn = "metadata_to_dcm_filepath"
     /\ res.done
     /\ \A k \in C20_Selected : arg.x[1][k] = arg.x[2][k]) =>
        res.value[1] = res.value[2]

C20_Witness ==
    /\ arg.fn = "metadata_to_dcm_filepath"
    /\ res.done
    /\ \A k \in C20_Selected : arg.x[1][k] = arg.x[2][k]
    /\ arg.x[1]["0020|1041"] # arg.x[2]["0020|1041"]
    /\ arg.x[1]["file"] # arg.x[2]["file"]

\* the fields that name the patient, the study, the series and the instance
C21_Tuple ==
    {"0010|0010", "0010|0020", "0008|0020", "0008|1030", "0020|000d",
     "0008|103e", "0020|000e", "0020|0013"}

\* C21: two complete mappings that differ in a field of the (patient, study,
\* series, instance) tuple get two different paths.
C21_PathInjectivity ==
    (/\ arg.fn = "metadata_to_dcm_filepath"
     /\ res.done
     /\ \E k \in C21_Tuple : arg.x[1][k] # arg.x[2][k]) =>
        res.value[1] # res.value[2]

\* san of the path format: surrounding blanks stripped, every space and dot
\* replaced by an underscore, every other character that is not
\* alphanumeric, underscore or hyphen removed
C22_San(s) ==
    LET t == Strip(s)
        u == [i \in 1..Len(t) |-> IF t[i] \in {" ", "."} THEN "_" ELSE t[i]]
    IN  SelectSeq(u, LAMBDA ch : ch \in WordChars \cup {"-"})

C23_SeriesDir(m) == SubSeq(image_io_metadata_to_dcm_filepath(m), 1, 3)

\* C23: the volume path of a mapping is the series directory of its file
\* path with ".nii.gz" appended to the series segment; two mappings have the
\* same volume path exactly when their files go to the same series directory.
C23_VolumePath ==
    (arg.fn = "metadata_to_nii_filepath" /\ res.done) =>
        /\ \A j \in {1, 2} :
               LET d == C23_SeriesDir(arg.x[j])
               IN  res.value[j] = <<d[1], d[2], d[3] \o <<".", "n", "i", "i", ".", "g", "z">>>>
        /\ (res.value[1] = res.value[2]) <=>
               (C23_SeriesDir(arg.x[1]) = C23_SeriesDir(arg.x[2]))

C23_Witness ==
    /\ arg.fn = "metadata_to_nii_filepath"
    /\ res.done
    /\ arg.x[1]["0008|103e"] = <<"a", " ", "b">>
    /\ arg.x[2]["0008|103e"] = <<"a", ".", "b">>
    /\ res.value[1] = res.value[2]

\* C24: a dcm_to_nii call whose target exists fails with FileExistsError
\* before a slice is read and leaves the existing artifact as it was.
C24_NoOverwrite ==
    (arg.fn = "dcm_to_nii" /\ res.done /\ arg.x.dest = "exists") =>
        /\ res.raises = "FileExistsError"
        /\ ~res.value.read
        /\ res.value.artifact = "old"

\* C25 as stated: a source directory with more than one series makes the
\* call fail with the ambiguous-series error (NotImplementedError), and no
\* artifact is written and no directory created.
C25_AmbiguousSeries ==
    (arg.fn = "dcm_to_nii" /\ res.done /\ arg.x.series > 1) =>
        /\ res.raises = "NotImplementedError"
        /\ res.value.artifact # "new"
        /\ res.value.parent = arg.x.parent

\* C25 amended: a source directory with more than one series makes the call
\* fail, with FileExistsError when image_io's version finds dest existing
\* and with NotImplementedError otherwise, and in both cases no artifact is
\* written and no directory created.
C25_AmbiguousSeriesAmended ==
    (arg.fn = "dcm_to_nii" /\ res.done /\ arg.x.series > 1) =>
        /\ res.raises = IF arg.x.version = "image_io" /\ arg.x.dest = "exists"
                        THEN "FileExistsError" ELSE "NotImplementedError"
        /\ ~res.value.read
        /\ res.value.artifact # "new"
        /\ res.value.parent = arg.x.parent

C25_Witness ==
    /\ arg.fn = "dcm_to_nii"
    /\ res.done
    /\ arg.x.series > 1
    /\ arg.x.parent = "absent"
    /\ res.raises = "NotImplementedError"
    /\ res.value.parent = "absent"

\* C26: a source directory with no series makes the call fail with an error
\* of another kind than the one a directory with several series gets.
C26_EmptySeriesError ==
    (arg.fn = "dcm_to_nii" /\ res.done /\ arg.x.series = 0 /\ arg.x.dest = "absent") =>
        /\ res.raises # "none"
        /\ res.raises # dcm_to_nii([arg.x EXCEPT !.series = 2]).raises

\* the ordering of a group by (acquisition number, instance number)
C27_ByNumber(g) ==
    sorted(g, [i \in 1..Len(g) |-> <<g[i].AcquisitionNumber, g[i].InstanceNumber>>])

\* the ordering of a group by z location
C27_ByZ(g) == sorted(g, [i \in 1..Len(g) |-> <<g[i].z_location>>])

C28_DisagreeingOrders ==
    (/\ arg.fn = "group_by_correct_volumes"
     /\ res.done
     /\ C27_ByNumber(arg.x) # C27_ByZ(arg.x)) =>
        LET n == C27_ByNumber(arg.x)
            inverted == {i \in 1..(Len(n) - 1) : n[i].z_location > n[i + 1].z_location}
        IN  /\ res.value.order = C27_ByZ(arg.x)
            /\ res.value.log # <<>>
            /\ Cardinality({i \in 1..Len(res.value.log) :
                              res.value.log[i] =
                                "discrepancy in slice order between z position and instance number!"})
                   = Cardinality(inverted)

\* the members of the list l that belong to the series uid, as often and in
\* the order they stand in l
C29_OfSeries(l, uid) == SelectSeq(l, LAMBDA m : m.SeriesInstanceUID = uid)

\* the place of the first member of the series uid in the list l
C29_First(l, uid) ==
    CHOOSE i \in 1..Len(l) :
        /\ l[i].SeriesInstanceUID = uid
        /\ \A j \in 1..(i - 1) : l[j].SeriesInstanceUID # uid

\* C29: merge_series partitions its input by SeriesInstanceUID: one group per
\* series UID of the input, each holding the members of that series as often
\* and in the order they stand in the input, no group empty, and the groups
\* in the order in which their series first appear.
C29_Partition ==
    (arg.fn = "merge_series" /\ res.done) =>
        LET l == arg.x
            d == res.value
        IN  /\ \A i, j \in 1..Len(d) : d[i].key = d[j].key => i = j
            /\ DictKeys(d) = {l[i].SeriesInstanceUID : i \in 1..Len(l)}
            /\ \A i \in 1..Len(d) :
                  /\ d[i].items = C29_OfSeries(l, d[i].key)
                  /\ d[i].items # <<>>
            /\ \A i, j \in 1..Len(d) :
                  i < j => C29_First(l, d[i].key) < C29_First(l, d[j].key)

C29_Witness ==
    /\ arg.fn = "merge_series"
    /\ res.done
    /\ Len(arg.x) = 4
    /\ arg.x[1].SeriesInstanceUID = "u2"
    /\ arg.x[2].SeriesInstanceUID = "u1"
    /\ arg.x[3] = arg.x[1]
    /\ arg.x[4].SeriesInstanceUID = "u2"
    /\ arg.x[4] # arg.x[1]
    /\ Len(res.value) = 2

\* the members of the series uid that the slice filter of the call c lets
\* through: all of them when the filter is off
C30_Passed(c, uid) ==
    SelectSeq(c.list, LAMBDA m : /\ m.SeriesInstanceUID = uid
                                 /\ (c.filter_slice => keep_slice(m)))

\* C30: for every series the output of extract_dcm_metadata_to_csv holds
\* either all the members that passed the slice filter or none of them; it
\* holds none exactly when the series filter is on and the members that
\* passed are fewer than the minimum; a filter that is off removes nothing.
C30_FilterOrder ==
    (arg.fn = "extract_dcm_metadata_to_csv" /\ res.done) =>
        \A uid \in {"u1", "u2"} :
            LET passed == C30_Passed(arg.x, uid)
                out == C29_OfSeries(res.value, uid)
            IN  /\ out = passed \/ out = <<>>
                /\ (arg.x.filter_series /\ Len(passed) < MinSeriesLen) => out = <<>>
                /\ ~(arg.x.filter_series /\ Len(passed) < MinSeriesLen) => out = passed

C30_Witness ==
    /\ arg.fn = "extract_dcm_metadata_to_csv"
    /\ res.done
    /\ arg.x.filter_slice
    /\ arg.x.filter_series
    /\ Len(C29_OfSeries(arg.x.list, "u1")) = MinSeriesLen
    /\ Len(C30_Passed(arg.x, "u1")) = MinSeriesLen - 1
    /\ C29_OfSeries(res.value, "u1") = <<>>

\* the scenario, to the scale of the model: the small-series filter is on,
\* series u1 has original CT slices only, series u2 has fewer slices than
\* u1, and u1 has fewer than the minimum (3 < 10 < 25)
C31_Scenario ==
    /\ arg.fn = "extract_dcm_metadata_to_csv"
    /\ res.done
    /\ arg.x.filter_series
    /\ \A i \in 1..Len(arg.x.list) :
          arg.x.list[i].SeriesInstanceUID = "u1" => keep_slice(arg.x.list[i])
    /\ 1 <= Len(C29_OfSeries(arg.x.list, "u2"))
    /\ Len(C29_OfSeries(arg.x.list, "u2")) < Len(C29_OfSeries(arg.x.list, "u1"))
    /\ Len(C29_OfSeries(arg.x.list, "u1")) < MinSeriesLen

C32_MkdirSafe ==
    (arg.fn = "mkdir_safe" /\ res.done) =>
        /\ arg.x = "absent" => res.raises = "none" /\ res.value.kind = "empty"
        /\ arg.x = "empty" => res.raises = "none" /\ res.value.kind = "empty"
        /\ arg.x = "nonempty" =>
              res.raises = "DirectoryNotEmptyError" /\ res.value.kind = "nonempty"
        /\ arg.x = "noparent" => res.raises # "none" /\ res.value.kind = "noparent"

C32_Witness ==
    /\ arg.fn = "mkdir_safe"
    /\ res.done
    /\ arg.x = "nonempty"
    /\ res.raises = "DirectoryNotEmptyError"

\* every directory above the path p is there
C33_ParentsExist(p) == \A a \in Ancestors(p) : fs[a] = "dir"

\* C33: ensure never raises and, once it has returned, the directories above
\* its path exist, whatever the other mover does; a step of ensure made when
\* these directories are all there changes nothing and does not raise; and
\* mkdir_safe returns an empty directory as it is.
C33_EnsureIsSafe ==
    /\ [](/\ \A m \in DOMAIN mpc :
               /\ mpc[m] # "FileNotFoundError"
               /\ mpc[m] \in {"ensured", "returned"} => C33_ParentsExist(margs[m].new)
          /\ mkdir_safe("empty") = [raises |-> "none", kind |-> "empty"])
    /\ [][\A m \in DOMAIN mpc :
            (/\ mpc[m] = "checked"
             /\ <<mpc[m], margs[m]>>' # <<mpc[m], margs[m]>>
             /\ C33_ParentsExist(margs[m].new)) =>
                /\ fs' = fs
                /\ mpc'[m] \in {"checked", "ensured"}]_vars

\* both movers found the same parent directory missing, both went on to
\* make it, and both calls of ensure have returned
C33_Witness ==
    /\ DOMAIN mpc = Movers
    /\ SubSeq(margs[1].new, 1, MvDepth) = SubSeq(margs[2].new, 1, MvDepth)
    /\ \A m \in Movers : mpc[m] \in {"ensured", "returned"} /\ margs[m].up

\* the places of the manifest f whose line is the sentinel, with or without
\* its newline
C34_Sentinels(f) ==
    {i \in 1..Len(f) : f[i] = TAKE_AFTER \/ f[i] = TAKE_AFTER \o <<"\n">>}

\* line l without the newline that ends it
C34_Chomp(l) ==
    IF l # <<>> /\ l[Len(l)] = "\n" THEN SubSeq(l, 1, Len(l) - 1) ELSE l

\* C34: the identifiers read from a manifest are the lines after the first
\* sentinel line, in file order, each without its newline; every line up to
\* and including that sentinel is dropped; without a sentinel line there is
\* no identifier.
C34_ManifestReading ==
    (arg.fn = "drop_until" /\ res.done) =>
        IF C34_Sentinels(arg.x) = {}
        THEN res.value = <<>>
        ELSE LET first == CHOOSE i \in C34_Sentinels(arg.x) :
                              \A j \in C34_Sentinels(arg.x) : i <= j
             IN  /\ Len(res.value) = Len(arg.x) - first
                 /\ \A k \in 1..Len(res.value) :
                        res.value[k] = C34_Chomp(arg.x[first + k])

\* a line before the sentinel, the sentinel, and an identifier on a last
\* line that has no newline
C34_Witness ==
    /\ arg.fn = "drop_until"
    /\ res.done
    /\ arg.x = <<<<"s", "1", "\n">>, <<"L", "=", "\n">>, <<"s", "2">>>>
    /\ res.value = <<<<"s", "2">>>>

\* C39: remove_ext returns, for every file path, a path whose final
\* component contains no dot.
C39_NoDotLeft ==
    (arg.fn = "remove_ext" /\ res.done) =>
        /\ res.raises = "none"
        /\ \A i \in 1..Len(res.value) : res.value[i] # "."

====
